---- MODULE Spec2Model ----
(***************************************************************************)
(* Model of backend/sam3_service.py: the SAM3Service session store, its    *)
(* six command handlers, the dispatcher handle_command and the protocol    *)
(* loop run().  The segmentation model, the image decoder and the file     *)
(* system are external: their outcomes are drawn from small sets.          *)
(***************************************************************************)
EXTENDS Integers, Sequences, FiniteSets, TLC

\* ------------------------------------------------------------------ bounds
\* Number of lines the loop reads from stdin before the stream is closed.
MaxLines == 5

\* Largest width and height of an image in the crop-geometry specification.
MaxSide == 4

\* Largest magnitude of the padding a crop request carries there.
MaxPad == 2

\* ------------------------------------------------------- python primitives
\* Python's None.
None == [py |-> "None"]

\* A numpy array or tensor holding the given items along its first axis.
Array(items) == [py |-> "array", data |-> items]

\* str(KeyError(key)): the key's repr.
KeyErrorStr(key) == "'" \o key \o "'"

\* A handler outcome: either it returned a response or an exception escaped.
Returned(sessions, fs, call, response) ==
    [raises |-> FALSE, sessions |-> sessions, fs |-> fs, call |-> call,
     response |-> response]

Raised(sessions, fs, call, exc) ==
    [raises |-> TRUE, sessions |-> sessions, fs |-> fs, call |-> call,
     exc |-> exc]

\* No call to the external model was made.
NoCall == [fn |-> "none"]

\* Variant: the last index holding the maximum.
ArgMax_last(scores) ==
    CHOOSE i \in 1..Len(scores) :
        /\ \A j \in 1..Len(scores) : scores[j] <= scores[i]
        /\ \A j \in (i + 1)..Len(scores) : scores[j] < scores[i]

\* np.argmax(scores): the first index holding the maximum (1-based here).
ArgMax(scores) ==
    CHOOSE i \in 1..Len(scores) :
        /\ \A j \in 1..Len(scores) : scores[j] <= scores[i]
        /\ \A j \in 1..(i - 1) : scores[j] < scores[i]

\* ---------------------------------------------------------- external world
SessionIds == {"s1", "s2"}

\* Image.open(path): the files the decoder can read, with mode and size;
\* any other path raises.
ImageFiles ==
    [p \in {"rgb.png", "gray.png"} |->
        IF p = "rgb.png" THEN [mode |-> "RGB", size |-> <<3, 2>>, path |-> p]
                         ELSE [mode |-> "L", size |-> <<2, 2>>, path |-> p]]

ImageOpenError(path) ==
    "[Errno 2] No such file or directory: '" \o path \o "'"

\* image.convert('RGB')
ConvertRGB(image) == [image EXCEPT !.mode = "RGB"]

\* processor.set_image(image): an opaque handle bound to the image.
SetImage(image) == [handle |-> image.path]

\* The model's error text when one of its calls raises (opaque to the service).
ModelError == "model error"

\* Masks the model can return for an image of the given size: arrays of
\* shape (height, width); fg is the set of <<row, col>> with value > 0.5.
Mask(size, fg) == [shape |-> <<size[2], size[1]>>, fg |-> fg]

MaskDot(size) == Mask(size, {<<0, 0>>})

MaskFull(size) == Mask(size, (0..(size[2] - 1)) \X (0..(size[1] - 1)))

MaskEmpty(size) == Mask(size, {})

\* Logits of the i-th mask returned for an inference state.
Logit(state, i) == [of |-> state.handle, idx |-> i]

\* model.predict_inst(state, **kwargs): what the model returns: three
\* candidates (two of them sharing the best score) when multimask_output is
\* set and one otherwise, or, by the outcome drawn for this call, none.
PredictInst(state, multimask_output, choice) ==
    LET size == ImageFiles[state.handle].size IN
    CASE choice = "masks" /\ ~multimask_output ->
            [masks |-> <<MaskDot(size)>>, scores |-> <<8>>,
             logits |-> <<Logit(state, 1)>>]
      [] choice = "masks" /\ multimask_output ->
            [masks |-> <<MaskDot(size), MaskFull(size), MaskEmpty(size)>>,
             scores |-> <<5, 9, 9>>,
             logits |-> <<Logit(state, 1), Logit(state, 2), Logit(state, 3)>>]
      [] OTHER ->
            [masks |-> <<>>, scores |-> <<>>, logits |-> <<>>]

\* processor.set_text_prompt(state, prompt): the instances found.
SetTextPrompt(state, prompt, choice) ==
    LET size == ImageFiles[state.handle].size IN
    CASE prompt # "" /\ choice = "boxes" ->
            [masks |-> <<MaskFull(size), MaskDot(size)>>, scores |-> <<7, 6>>,
             boxes |-> Array(<<<<0, 0, size[1], size[2]>>, <<0, 0, 1, 1>>>>)]
      [] prompt # "" /\ choice = "noboxes" ->
            [masks |-> <<MaskFull(size)>>, scores |-> <<7>>, boxes |-> None]
      [] OTHER ->
            [masks |-> <<>>, scores |-> <<>>, boxes |-> None]

\* (mask_np * 255).astype(uint8) saved as a single-channel PNG, base64:
\* the image size is (width, height), white where the mask is set.
RenderMask(mask) ==
    [format |-> "PNG", mode |-> "L",
     size |-> <<mask.shape[2], mask.shape[1]>>, white |-> mask.fg]

\* ------------------------------------------------------------ session store
\* self.sessions[session_id] = record
StorePut(sessions, session_id, record) ==
    [k \in (DOMAIN sessions) \cup {session_id} |->
        IF k = session_id THEN record ELSE sessions[k]]

\* del self.sessions[session_id]
StoreDel(sessions, session_id) ==
    [k \in (DOMAIN sessions) \ {session_id} |-> sessions[k]]

\* session[key] = value on a session dict (the key is added when absent).
DictSet(d, key, value) ==
    [k \in (DOMAIN d) \cup {key} |-> IF k = key THEN value ELSE d[k]]

\* ----------------------------------------------------------------- handlers
\* Image.open(path) and the conversion of a non-RGB image.
OpenRGB(image_path) ==
    IF ImageFiles[image_path].mode # "RGB"
    THEN ConvertRGB(ImageFiles[image_path]) ELSE ImageFiles[image_path]

\* Variant: load_image on an id already in the store updates the image
\* fields of the existing dict and keeps the rest of it.
load_decoded_update(sessions, fs, image_path, session_id, image, ext) ==
    IF ext.model_raises
    THEN Returned(sessions, fs, [fn |-> "set_image", image |-> image],
                  [success |-> FALSE, error |-> ModelError])
    ELSE Returned(
            StorePut(sessions, session_id,
                     IF session_id \in DOMAIN sessions
                     THEN [sessions[session_id] EXCEPT
                              !.state = SetImage(image), !.image = image,
                              !.width = image.size[1],
                              !.height = image.size[2],
                              !.image_path = image_path]
                     ELSE [state |-> SetImage(image), image |-> image,
                           width |-> image.size[1], height |-> image.size[2],
                           image_path |-> image_path, logits |-> None]),
            fs, [fn |-> "set_image", image |-> image],
            [success |-> TRUE, width |-> image.size[1],
             height |-> image.size[2],
             message |-> "Image loaded successfully"])

\* Variant: load_image registers the session before set_image has returned,
\* so a failing set_image leaves the new entry behind.
load_decoded_eager(sessions, fs, image_path, session_id, image, ext) ==
    IF ext.model_raises
    THEN Returned(
            StorePut(sessions, session_id,
                     [state |-> None, image |-> image,
                      width |-> image.size[1], height |-> image.size[2],
                      image_path |-> image_path, logits |-> None]),
            fs, [fn |-> "set_image", image |-> image],
            [success |-> FALSE, error |-> ModelError])
    ELSE Returned(
            StorePut(sessions, session_id,
                     [state |-> SetImage(image), image |-> image,
                      width |-> image.size[1], height |-> image.size[2],
                      image_path |-> image_path, logits |-> None]),
            fs, [fn |-> "set_image", image |-> image],
            [success |-> TRUE, width |-> image.size[1],
             height |-> image.size[2],
             message |-> "Image loaded successfully"])

\* load_image once the image is decoded.
load_decoded(sessions, fs, image_path, session_id, image, ext) ==
    IF ext.model_raises
    THEN Returned(sessions, fs, [fn |-> "set_image", image |-> image],
                  [success |-> FALSE, error |-> ModelError])
    ELSE Returned(
            StorePut(sessions, session_id,
                     [state |-> SetImage(image), image |-> image,
                      width |-> image.size[1], height |-> image.size[2],
                      image_path |-> image_path, logits |-> None]),
            fs, [fn |-> "set_image", image |-> image],
            [success |-> TRUE, width |-> image.size[1],
             height |-> image.size[2],
             message |-> "Image loaded successfully"])

load_image(sessions, fs, image_path, session_id, ext) ==
    IF image_path \notin DOMAIN ImageFiles
    THEN Returned(sessions, fs, NoCall,
                  [success |-> FALSE, error |-> ImageOpenError(image_path)])
    ELSE load_decoded(sessions, fs, image_path, session_id,
                      OpenRGB(image_path), ext)

\* The error response of a handler for a session id not in the store.
SessionNotFound(session_id) ==
    [success |-> FALSE, error |-> "Session " \o session_id \o " not found"]

\* The keyword arguments of the predict_inst call: mask_input is passed only
\* when refinement is requested and the session holds logits.
click_kwargs(session, points, labels, multimask_output, use_previous_logits) ==
    [fn |-> "predict_inst", state |-> session.state,
     point_coords |-> points, point_labels |-> labels,
     multimask_output |-> multimask_output,
     mask_input |-> IF use_previous_logits /\ session.logits # None
                    THEN session.logits ELSE None]

\* The session after a prediction returned: the best mask's logits (when
\* any were returned), last_masks and last_scores.
click_store(session, out) ==
    DictSet(
        DictSet(
            IF Len(out.logits) > 0
            THEN DictSet(session, "logits",
                         Array(<<out.logits[ArgMax(out.scores)]>>))
            ELSE session,
            "last_masks", Array(out.masks)),
        "last_scores", Array(out.scores))

\* The masks rendered for transport, in the order the model returned them.
RenderMasks(masks) == [i \in 1..Len(masks) |-> RenderMask(masks[i])]

\* Variant: the response lists masks and scores from last to first.
click_response_reversed(sessions, fs, call, out, ext) ==
    IF ext.render_raises /\ Len(out.masks) > 0
    THEN Returned(sessions, fs, call,
                  [success |-> FALSE, error |-> "render error"])
    ELSE Returned(sessions, fs, call,
                  [success |-> TRUE,
                   masks |-> [i \in 1..Len(out.masks) |->
                                RenderMask(out.masks[Len(out.masks) + 1 - i])],
                   scores |-> [i \in 1..Len(out.scores) |->
                                 out.scores[Len(out.scores) + 1 - i]],
                   num_masks |-> Len(out.masks),
                   message |-> "Segmentation successful"])

\* The response of predict_click once the session is updated: rendering a
\* mask may raise, which the handler turns into a failure.
click_response(sessions, fs, call, out, ext) ==
    IF ext.render_raises /\ Len(out.masks) > 0
    THEN Returned(sessions, fs, call,
                  [success |-> FALSE, error |-> "render error"])
    ELSE Returned(sessions, fs, call,
                  [success |-> TRUE, masks |-> RenderMasks(out.masks),
                   scores |-> out.scores, num_masks |-> Len(out.masks),
                   message |-> "Segmentation successful"])

\* predict_click from the model call on.
click_predict(sessions, fs, session_id, session, call, ext) ==
    IF ext.model_raises
    THEN Returned(sessions, fs, call, [success |-> FALSE, error |-> ModelError])
    ELSE click_response(
            StorePut(sessions, session_id,
                     click_store(session,
                                 PredictInst(session.state,
                                             call.multimask_output, ext.choice))),
            fs, call,
            PredictInst(session.state, call.multimask_output, ext.choice), ext)

\* Variant: refinement takes the logits of any session that holds some.
predict_click_shared(sessions, fs, session_id, points, labels, multimask_output, use_previous_logits, ext) ==
    IF session_id \notin DOMAIN sessions
    THEN Returned(sessions, fs, NoCall, SessionNotFound(session_id))
    ELSE click_predict(sessions, fs, session_id, sessions[session_id],
                       click_kwargs(
                           IF \E k \in DOMAIN sessions : sessions[k].logits # None
                           THEN sessions[CHOOSE k \in DOMAIN sessions :
                                            sessions[k].logits # None]
                           ELSE sessions[session_id],
                           points, labels, multimask_output,
                           use_previous_logits),
                       ext)

predict_click(sessions, fs, session_id, points, labels, multimask_output, use_previous_logits, ext) ==
    IF session_id \notin DOMAIN sessions
    THEN Returned(sessions, fs, NoCall, SessionNotFound(session_id))
    ELSE click_predict(sessions, fs, session_id, sessions[session_id],
                       click_kwargs(sessions[session_id], points, labels,
                                    multimask_output, use_previous_logits),
                       ext)

\* The response of predict_text for the model's output.
text_response(sessions, fs, call, output, ext) ==
    IF ext.render_raises /\ Len(output.masks) > 0
    THEN Returned(sessions, fs, call,
                  [success |-> FALSE, error |-> "render error"])
    ELSE IF output.boxes # None
    THEN Returned(sessions, fs, call,
                  [success |-> TRUE, masks |-> RenderMasks(output.masks),
                   scores |-> output.scores,
                   num_instances |-> Len(output.masks),
                   message |-> "Found " \o ToString(Len(output.masks))
                               \o " instances",
                   boxes |-> output.boxes.data])
    ELSE Returned(sessions, fs, call,
                  [success |-> TRUE, masks |-> RenderMasks(output.masks),
                   scores |-> output.scores,
                   num_instances |-> Len(output.masks),
                   message |-> "Found " \o ToString(Len(output.masks))
                               \o " instances"])

\* predict_text from the model call on.
text_predict(sessions, fs, session, call, ext) ==
    IF ext.model_raises
    THEN Returned(sessions, fs, call, [success |-> FALSE, error |-> ModelError])
    ELSE text_response(sessions, fs, call,
                       SetTextPrompt(session.state, call.prompt, ext.choice),
                       ext)

\* Variant: predict_text starts from a clean refinement state: it drops the
\* session's logits before calling the model.
predict_text_resets(sessions, fs, session_id, prompt, ext) ==
    IF session_id \notin DOMAIN sessions
    THEN Returned(sessions, fs, NoCall, SessionNotFound(session_id))
    ELSE text_predict(StorePut(sessions, session_id,
                               [sessions[session_id] EXCEPT !.logits = None]),
                      fs, sessions[session_id],
                      [fn |-> "set_text_prompt",
                       state |-> sessions[session_id].state,
                       prompt |-> prompt],
                      ext)

predict_text(sessions, fs, session_id, prompt, ext) ==
    IF session_id \notin DOMAIN sessions
    THEN Returned(sessions, fs, NoCall, SessionNotFound(session_id))
    ELSE text_predict(sessions, fs, sessions[session_id],
                      [fn |-> "set_text_prompt",
                       state |-> sessions[session_id].state,
                       prompt |-> prompt],
                      ext)

\* Variant: the failure of clear_session carries `message`, not `error`.
clear_session_message(sessions, fs, session_id) ==
    IF session_id \in DOMAIN sessions
    THEN Returned(StoreDel(sessions, session_id), fs, NoCall,
                  [success |-> TRUE, message |-> "Session cleared"])
    ELSE Returned(sessions, fs, NoCall,
                  [success |-> FALSE, message |-> "Session not found"])

\* Variant: clear_session empties the whole store (self.sessions.clear()).
clear_session_all(sessions, fs, session_id) ==
    IF session_id \in DOMAIN sessions
    THEN Returned(<<>>, fs, NoCall,
                  [success |-> TRUE, message |-> "Session cleared"])
    ELSE Returned(sessions, fs, NoCall,
                  [success |-> FALSE, error |-> "Session not found"])

\* Variant: clear_session of an absent id reports success (idempotent clear).
clear_session_idempotent(sessions, fs, session_id) ==
    IF session_id \in DOMAIN sessions
    THEN Returned(StoreDel(sessions, session_id), fs, NoCall,
                  [success |-> TRUE, message |-> "Session cleared"])
    ELSE Returned(sessions, fs, NoCall,
                  [success |-> TRUE, message |-> "Session cleared"])

\* Variant: clear_session reports success without deleting the session.
clear_session_keeps(sessions, fs, session_id) ==
    IF session_id \in DOMAIN sessions
    THEN Returned(sessions, fs, NoCall,
                  [success |-> TRUE, message |-> "Session cleared"])
    ELSE Returned(sessions, fs, NoCall,
                  [success |-> FALSE, error |-> "Session not found"])

clear_session(sessions, fs, session_id) ==
    IF session_id \in DOMAIN sessions
    THEN Returned(StoreDel(sessions, session_id), fs, NoCall,
                  [success |-> TRUE, message |-> "Session cleared"])
    ELSE Returned(sessions, fs, NoCall,
                  [success |-> FALSE, error |-> "Session not found"])

\* np.array(image)[r, c]: the source pixel at an original-image coordinate.
Pixel(image, r, c) == [of |-> image.path, at |-> <<r, c>>]

\* a[lo:hi] on an axis of length n: the indices selected (Python slicing,
\* negative bounds counted from the end).
PySlice(lo, hi, n) ==
    LET norm(i) == IF i < 0 THEN (IF i + n < 0 THEN 0 ELSE i + n)
                   ELSE (IF i > n THEN n ELSE i)
    IN  {i \in 0..(n - 1) : norm(lo) <= i /\ i < norm(hi)}

SetMin(S) == CHOOSE m \in S : \A x \in S : m <= x

SetMax(S) == CHOOSE m \in S : \A x \in S : x <= m

\* os.path.dirname(output_path) for the paths requests carry.
Dirname(output_path) ==
    IF output_path = "crops/out.png" THEN "crops" ELSE ""

\* The file system before any crop was written.
EmptyFs == [dirs |-> {}, files |-> <<>>]

\* os.makedirs(output_dir, exist_ok=True)
MakeDirs(fs, output_dir) == [fs EXCEPT !.dirs = @ \cup {output_dir}]

\* crop_image.save(output_path, format='PNG')
SaveFile(fs, output_path, content) ==
    [fs EXCEPT !.files = [k \in (DOMAIN @) \cup {output_path} |->
                             IF k = output_path THEN content ELSE @[k]]]

\* masks[mask_index] for an index the handler let through: a negative index
\* counts from the end (sequences here are 1-based).
PyItem(items, index) ==
    items[IF index < 0 THEN Len(items) + index + 1 ELSE index + 1]

\* np.any(mask_bool, axis=1) and axis=0: the rows and columns holding a
\* foreground pixel.
Rows(mask) == {q[1] : q \in mask.fg}

Cols(mask) == {q[2] : q \in mask.fg}

\* max(0, v - padding) and min(length - 1, v + padding)
PadLow(v, padding) == IF v - padding > 0 THEN v - padding ELSE 0

PadHigh(v, length, padding) ==
    IF v + padding < length - 1 THEN v + padding ELSE length - 1

\* bbox = [cmin, rmin, cmax, rmax] of a non-empty mask, padded and clamped
\* to the mask's shape (height, width).
BBox(mask, padding) ==
    <<PadLow(SetMin(Cols(mask)), padding),
      PadLow(SetMin(Rows(mask)), padding),
      PadHigh(SetMax(Cols(mask)), mask.shape[2], padding),
      PadHigh(SetMax(Rows(mask)), mask.shape[1], padding)>>

\* The <<row, col>> of image_np[rmin:rmax+1, cmin:cmax+1].
Region(image, bbox) ==
    PySlice(bbox[2], bbox[4] + 1, image.size[2])
        \X PySlice(bbox[1], bbox[3] + 1, image.size[1])

\* The size (width, height) of the array cropped for bbox.
RegionSize(image, bbox) ==
    <<Cardinality(PySlice(bbox[1], bbox[3] + 1, image.size[1])),
      Cardinality(PySlice(bbox[2], bbox[4] + 1, image.size[2]))>>

\* Variant: the white and the black fill are exchanged.
CropPixels_swapped(image, mask, bbox, background_mode) ==
    CASE background_mode = "transparent" ->
            [q \in Region(image, bbox) |->
                [rgb |-> Pixel(image, q[1], q[2]),
                 alpha |-> IF q \in mask.fg THEN 255 ELSE 0]]
      [] background_mode = "white" ->
            [q \in Region(image, bbox) |->
                IF q \in mask.fg THEN Pixel(image, q[1], q[2])
                ELSE [fill |-> <<0, 0, 0>>]]
      [] background_mode = "black" ->
            [q \in Region(image, bbox) |->
                IF q \in mask.fg THEN Pixel(image, q[1], q[2])
                ELSE [fill |-> <<255, 255, 255>>]]
      [] OTHER ->
            [q \in Region(image, bbox) |-> Pixel(image, q[1], q[2])]

\* Variant: the original mode blanks the pixels outside the mask.
CropPixels_masked(image, mask, bbox, background_mode) ==
    CASE background_mode = "transparent" ->
            [q \in Region(image, bbox) |->
                [rgb |-> Pixel(image, q[1], q[2]),
                 alpha |-> IF q \in mask.fg THEN 255 ELSE 0]]
      [] background_mode = "white" ->
            [q \in Region(image, bbox) |->
                IF q \in mask.fg THEN Pixel(image, q[1], q[2])
                ELSE [fill |-> <<255, 255, 255>>]]
      [] OTHER ->
            [q \in Region(image, bbox) |->
                IF q \in mask.fg THEN Pixel(image, q[1], q[2])
                ELSE [fill |-> <<0, 0, 0>>]]

\* The pixels of the crop under a background mode, by original coordinate.
CropPixels(image, mask, bbox, background_mode) ==
    CASE background_mode = "transparent" ->
            [q \in Region(image, bbox) |->
                [rgb |-> Pixel(image, q[1], q[2]),
                 alpha |-> IF q \in mask.fg THEN 255 ELSE 0]]
      [] background_mode = "white" ->
            [q \in Region(image, bbox) |->
                IF q \in mask.fg THEN Pixel(image, q[1], q[2])
                ELSE [fill |-> <<255, 255, 255>>]]
      [] background_mode = "black" ->
            [q \in Region(image, bbox) |->
                IF q \in mask.fg THEN Pixel(image, q[1], q[2])
                ELSE [fill |-> <<0, 0, 0>>]]
      [] OTHER ->
            [q \in Region(image, bbox) |-> Pixel(image, q[1], q[2])]

CropImage(image, mask, bbox, background_mode) ==
    [mode |-> IF background_mode = "transparent" THEN "RGBA" ELSE "RGB",
     size |-> RegionSize(image, bbox),
     px |-> CropPixels(image, mask, bbox, background_mode)]

\* int(mask_region.sum())
MaskArea(image, mask, bbox) ==
    Cardinality({q \in Region(image, bbox) : q \in mask.fg})

\* os.makedirs, crop_image.save and the success response.
crop_save(sessions, fs, image, mask, bbox, output_path, background_mode, ext) ==
    IF ext.fs = "makedirs" /\ Dirname(output_path) # ""
    THEN Returned(sessions, fs, NoCall,
                  [success |-> FALSE, error |-> "makedirs failed"])
    ELSE IF ext.fs = "save"
    THEN Returned(sessions,
                  IF Dirname(output_path) # ""
                  THEN MakeDirs(fs, Dirname(output_path)) ELSE fs,
                  NoCall, [success |-> FALSE, error |-> "save failed"])
    ELSE Returned(sessions,
                  SaveFile(IF Dirname(output_path) # ""
                           THEN MakeDirs(fs, Dirname(output_path)) ELSE fs,
                           output_path,
                           CropImage(image, mask, bbox, background_mode)),
                  NoCall,
                  [success |-> TRUE, output_path |-> output_path,
                   bbox |-> bbox, crop_width |-> bbox[3] - bbox[1],
                   crop_height |-> bbox[4] - bbox[2],
                   mask_area |-> MaskArea(image, mask, bbox),
                   message |-> "Crop created successfully"])

\* os.makedirs and crop_image.save for a crop of zero width or height: the
\* PNG encoder rejects it, after the output directory was made.
crop_save_empty(sessions, fs, output_path, ext) ==
    IF ext.fs = "makedirs" /\ Dirname(output_path) # ""
    THEN Returned(sessions, fs, NoCall,
                  [success |-> FALSE, error |-> "makedirs failed"])
    ELSE Returned(sessions,
                  IF Dirname(output_path) # ""
                  THEN MakeDirs(fs, Dirname(output_path)) ELSE fs,
                  NoCall,
                  [success |-> FALSE,
                   error |-> "tile cannot extend outside image"])

\* Variant: the background mode is looked at before the mask's pixels.
crop_mask_mode_first(sessions, fs, image, mask, output_path, background_mode, padding, ext) ==
    IF background_mode \notin {"transparent", "white", "black", "original"}
    THEN Returned(sessions, fs, NoCall,
                  [success |-> FALSE,
                   error |-> "Unknown background_mode: " \o background_mode])
    ELSE IF Rows(mask) = {} \/ Cols(mask) = {}
    THEN Returned(sessions, fs, NoCall,
                  [success |-> FALSE, error |-> "Mask is empty"])
    ELSE crop_save(sessions, fs, image, mask, BBox(mask, padding), output_path,
                   background_mode, ext)

\* Variant: the output directory is made before the background mode is
\* looked at.
crop_mask_dirs_first(sessions, fs, image, mask, output_path, background_mode, padding, ext) ==
    IF Rows(mask) = {} \/ Cols(mask) = {}
    THEN Returned(sessions, fs, NoCall,
                  [success |-> FALSE, error |-> "Mask is empty"])
    ELSE IF background_mode \notin {"transparent", "white", "black", "original"}
    THEN Returned(sessions,
                  IF Dirname(output_path) # ""
                  THEN MakeDirs(fs, Dirname(output_path)) ELSE fs,
                  NoCall,
                  [success |-> FALSE,
                   error |-> "Unknown background_mode: " \o background_mode])
    ELSE crop_save(sessions, fs, image, mask, BBox(mask, padding), output_path,
                   background_mode, ext)

\* crop_from_mask once the mask is selected.
crop_mask(sessions, fs, image, mask, output_path, background_mode, padding, ext) ==
    IF Rows(mask) = {} \/ Cols(mask) = {}
    THEN Returned(sessions, fs, NoCall,
                  [success |-> FALSE, error |-> "Mask is empty"])
    ELSE IF background_mode \notin {"transparent", "white", "black", "original"}
    THEN Returned(sessions, fs, NoCall,
                  [success |-> FALSE,
                   error |-> "Unknown background_mode: " \o background_mode])
    ELSE IF ext.render_raises
    THEN \* Image.fromarray raises
         Returned(sessions, fs, NoCall,
                  [success |-> FALSE, error |-> "render error"])
    ELSE IF Region(image, BBox(mask, padding)) = {}
    THEN crop_save_empty(sessions, fs, output_path, ext)
    ELSE crop_save(sessions, fs, image, mask, BBox(mask, padding), output_path,
                   background_mode, ext)

\* Variant: a session without last_masks is treated as holding zero masks.
crop_session_nomasks(sessions, fs, session, mask_index, output_path, background_mode, padding, ext) ==
    IF "last_masks" \notin DOMAIN session \/ session.last_masks = None
    THEN Returned(sessions, fs, NoCall,
                  [success |-> FALSE,
                   error |-> "Mask index " \o ToString(mask_index)
                             \o " out of range (have 0 masks)"])
    ELSE IF mask_index >= Len(session.last_masks.data)
    THEN Returned(sessions, fs, NoCall,
                  [success |-> FALSE,
                   error |-> "Mask index " \o ToString(mask_index)
                             \o " out of range (have "
                             \o ToString(Len(session.last_masks.data))
                             \o " masks)"])
    ELSE crop_mask(sessions, fs, session.image,
                   PyItem(session.last_masks.data, mask_index), output_path,
                   background_mode, padding, ext)

\* crop_from_mask once the session is found.
crop_session(sessions, fs, session, mask_index, output_path, background_mode, padding, ext) ==
    IF "last_masks" \notin DOMAIN session \/ session.last_masks = None
    THEN Returned(sessions, fs, NoCall,
                  [success |-> FALSE,
                   error |-> "No masks available. Run a prediction first."])
    ELSE IF mask_index >= Len(session.last_masks.data)
    THEN Returned(sessions, fs, NoCall,
                  [success |-> FALSE,
                   error |-> "Mask index " \o ToString(mask_index)
                             \o " out of range (have "
                             \o ToString(Len(session.last_masks.data))
                             \o " masks)"])
    ELSE IF mask_index < 0 - Len(session.last_masks.data)
    THEN \* masks[mask_index] raises IndexError, caught by the handler
         Returned(sessions, fs, NoCall,
                  [success |-> FALSE,
                   error |-> "index " \o ToString(mask_index)
                             \o " is out of bounds for axis 0 with size "
                             \o ToString(Len(session.last_masks.data))])
    ELSE crop_mask(sessions, fs, session.image,
                   PyItem(session.last_masks.data, mask_index), output_path,
                   background_mode, padding, ext)

\* Variant: crop_from_mask prepares the output directory before it looks
\* the session up.
crop_from_mask_mkdir(sessions, fs, session_id, mask_index, output_path, background_mode, padding, ext) ==
    IF session_id \notin DOMAIN sessions
    THEN Returned(sessions, MakeDirs(fs, Dirname(output_path)), NoCall,
                  SessionNotFound(session_id))
    ELSE crop_session(sessions, fs, sessions[session_id], mask_index,
                      output_path, background_mode, padding, ext)

\* Variant: a crop uses the session's masks up.
crop_from_mask_consumes(sessions, fs, session_id, mask_index, output_path, background_mode, padding, ext) ==
    IF session_id \notin DOMAIN sessions
    THEN Returned(sessions, fs, NoCall, SessionNotFound(session_id))
    ELSE [crop_session(sessions, fs, sessions[session_id], mask_index,
                       output_path, background_mode, padding, ext)
            EXCEPT !.sessions =
                StorePut(sessions, session_id,
                         DictSet(sessions[session_id], "last_masks", None))]

crop_from_mask(sessions, fs, session_id, mask_index, output_path, background_mode, padding, ext) ==
    IF session_id \notin DOMAIN sessions
    THEN Returned(sessions, fs, NoCall, SessionNotFound(session_id))
    ELSE crop_session(sessions, fs, sessions[session_id], mask_index,
                      output_path, background_mode, padding, ext)

\* --------------------------------------------------------------- dispatcher
\* command_data.get(key, default)
Get(d, key, default) == IF key \in DOMAIN d THEN d[key] ELSE default

\* command_data.get('command') == name
CommandIs(command_data, name) ==
    "command" \in DOMAIN command_data /\ command_data.command = name

\* f'{command}' for command_data.get('command'): None when the key is absent.
CommandStr(command_data) == Get(command_data, "command", "None")

\* The first of the keys read with command_data[key] that is absent
\* ("" when all are present): the subscript raises KeyError(key).
FirstMissing(command_data, keys) ==
    IF \A i \in 1..Len(keys) : keys[i] \in DOMAIN command_data THEN ""
    ELSE keys[CHOOSE i \in 1..Len(keys) :
                /\ keys[i] \notin DOMAIN command_data
                /\ \A j \in 1..(i - 1) : keys[j] \in DOMAIN command_data]

\* Variant: ping answers only while a session is live.
ping_needs_session(sessions, fs) ==
    IF DOMAIN sessions = {}
    THEN Returned(sessions, fs, NoCall,
                  [success |-> FALSE, error |-> "No active session"])
    ELSE Returned(sessions, fs, NoCall, [success |-> TRUE, message |-> "pong"])

\* Variant: ping drops the cached logits of every session.
ping_resets_logits(sessions, fs) ==
    Returned([k \in DOMAIN sessions |-> [sessions[k] EXCEPT !.logits = None]],
             fs, NoCall, [success |-> TRUE, message |-> "pong"])

ping(sessions, fs) ==
    Returned(sessions, fs, NoCall, [success |-> TRUE, message |-> "pong"])

\* Variant: the unknown-command error does not name the command.
unknown_command_unnamed(sessions, fs, command_data) ==
    Returned(sessions, fs, NoCall,
             [success |-> FALSE, error |-> "Unknown command"])

unknown_command(sessions, fs, command_data) ==
    Returned(sessions, fs, NoCall,
             [success |-> FALSE,
              error |-> "Unknown command: " \o CommandStr(command_data)])

handle_command(sessions, fs, command_data, ext) ==
    LET d == command_data IN
    CASE CommandIs(d, "load_image") ->
            IF FirstMissing(d, <<"image_path", "session_id">>) # ""
            THEN Raised(sessions, fs, NoCall,
                        KeyErrorStr(FirstMissing(d, <<"image_path", "session_id">>)))
            ELSE load_image(sessions, fs, d.image_path, d.session_id, ext)
      [] CommandIs(d, "predict_click") ->
            IF FirstMissing(d, <<"session_id", "points", "labels">>) # ""
            THEN Raised(sessions, fs, NoCall,
                        KeyErrorStr(FirstMissing(d, <<"session_id", "points", "labels">>)))
            ELSE predict_click(sessions, fs, d.session_id, d.points, d.labels,
                               Get(d, "multimask_output", TRUE),
                               Get(d, "use_previous_logits", FALSE), ext)
      [] CommandIs(d, "predict_text") ->
            IF FirstMissing(d, <<"session_id", "prompt">>) # ""
            THEN Raised(sessions, fs, NoCall,
                        KeyErrorStr(FirstMissing(d, <<"session_id", "prompt">>)))
            ELSE predict_text(sessions, fs, d.session_id, d.prompt, ext)
      [] CommandIs(d, "clear_session") ->
            IF FirstMissing(d, <<"session_id">>) # ""
            THEN Raised(sessions, fs, NoCall, KeyErrorStr("session_id"))
            ELSE clear_session(sessions, fs, d.session_id)
      [] CommandIs(d, "crop_from_mask") ->
            IF FirstMissing(d, <<"session_id", "mask_index", "output_path">>) # ""
            THEN Raised(sessions, fs, NoCall,
                        KeyErrorStr(FirstMissing(d, <<"session_id", "mask_index",
                                                      "output_path">>)))
            ELSE crop_from_mask(sessions, fs, d.session_id, d.mask_index,
                                d.output_path,
                                Get(d, "background_mode", "transparent"),
                                Get(d, "padding", 10), ext)
      [] CommandIs(d, "ping") -> ping(sessions, fs)
      [] OTHER -> unknown_command(sessions, fs, d)

\* ------------------------------------------------------------ protocol loop
\* line.strip(): whitespace-only lines become the empty line.
Strip(line) == IF line.raw \in {"", "  "} THEN [raw |-> ""] ELSE line

\* Variant: a lenient decoder that returns undecodable text as a string.
JsonLoads_lenient(line) ==
    CASE line.raw = "{bad" -> [raises |-> FALSE, type |-> "str"]
      [] line.raw = "5" -> [raises |-> FALSE, type |-> "int"]
      [] OTHER -> [raises |-> FALSE, type |-> "dict", value |-> line.body]

\* json.loads(line): JSONDecodeError, or the decoded value.
JsonLoads(line) ==
    CASE line.raw = "{bad" -> [raises |-> TRUE]
      [] line.raw = "5" -> [raises |-> FALSE, type |-> "int"]
      [] OTHER -> [raises |-> FALSE, type |-> "dict", value |-> line.body]

\* What one pass of the loop body writes for a stripped, non-empty line and
\* what it leaves in the store: `written` holds the response objects printed.
Wrote(sessions, fs, call, responses) ==
    [sessions |-> sessions, fs |-> fs, call |-> call, written |-> responses,
     fatal |-> FALSE]

\* An exception left the inner try: the outer handler of run() logs it as
\* fatal and the loop ends without a response.
Escaped(sessions, fs, call) ==
    [sessions |-> sessions, fs |-> fs, call |-> call, written |-> <<>>,
     fatal |-> TRUE]

\* Variant: no except Exception around the dispatch; an exception that
\* escapes handle_command reaches the outer handler of run().
respond_uncaught(r) ==
    IF r.raises
    THEN Escaped(r.sessions, r.fs, r.call)
    ELSE Wrote(r.sessions, r.fs, r.call, <<r.response>>)

\* Variant: an exception escaping handle_command empties the store.
respond_resets(r) ==
    IF r.raises
    THEN Wrote(<<>>, r.fs, r.call, <<[success |-> FALSE, error |-> r.exc]>>)
    ELSE Wrote(r.sessions, r.fs, r.call, <<r.response>>)

\* The response printed for what handle_command did: its return value, or
\* the message of the exception that escaped it (except Exception).
respond(r) ==
    IF r.raises
    THEN Wrote(r.sessions, r.fs, r.call, <<[success |-> FALSE, error |-> r.exc]>>)
    ELSE Wrote(r.sessions, r.fs, r.call, <<r.response>>)

\* Variant: no except json.JSONDecodeError; the decode error reaches the
\* outer handler of run().
run_decoded_nodecodehandler(sessions, fs, parsed, ext) ==
    IF parsed.raises
    THEN Escaped(sessions, fs, NoCall)
    ELSE IF parsed.type # "dict"
    THEN Wrote(sessions, fs, NoCall,
               <<[success |-> FALSE,
                  error |-> "'" \o parsed.type
                            \o "' object has no attribute 'get'"]>>)
    ELSE respond(handle_command(sessions, fs, parsed.value, ext))

\* The loop body once the line is decoded.
run_decoded(sessions, fs, parsed, ext) ==
    IF parsed.raises
    THEN Wrote(sessions, fs, NoCall,
               <<[success |-> FALSE, error |-> "Invalid JSON"]>>)
    ELSE IF parsed.type # "dict"
    THEN \* command_data.get raises AttributeError: except Exception
         Wrote(sessions, fs, NoCall,
               <<[success |-> FALSE,
                  error |-> "'" \o parsed.type
                            \o "' object has no attribute 'get'"]>>)
    ELSE respond(handle_command(sessions, fs, parsed.value, ext))

run_body(sessions, fs, line, ext) ==
    run_decoded(sessions, fs, JsonLoads(line), ext)

\* ------------------------------------------------------------------- inputs
Obj(body) == [raw |-> "json", body |-> body]

\* The lines a host can send: blank lines, malformed JSON, JSON that is not
\* an object, objects without a known command, and the six commands with
\* present, absent and defaulted fields.
Lines ==
    {[raw |-> ""], [raw |-> "  "], [raw |-> "{bad"], [raw |-> "5"],
     Obj([session_id |-> "s1"]),
     Obj([command |-> "bogus"]),
     Obj([command |-> "PING"]),
     Obj([command |-> "ping"]),
     Obj([command |-> "load_image", session_id |-> "s1", image_path |-> "rgb.png"]),
     Obj([command |-> "load_image", session_id |-> "s1", image_path |-> "gray.png"]),
     Obj([command |-> "load_image", session_id |-> "s1", image_path |-> "missing.png"]),
     Obj([command |-> "load_image", session_id |-> "s2", image_path |-> "rgb.png"]),
     Obj([command |-> "load_image", image_path |-> "rgb.png"]),
     Obj([command |-> "clear_session", session_id |-> "s1"]),
     Obj([command |-> "clear_session", session_id |-> "s2"]),
     Obj([command |-> "clear_session", session_id |-> "s3"]),
     Obj([command |-> "clear_session"]),
     Obj([command |-> "predict_click", session_id |-> "s1",
          points |-> <<<<0, 0>>>>, labels |-> <<1>>]),
     Obj([command |-> "predict_click", session_id |-> "s1",
          points |-> <<<<0, 0>>, <<1, 1>>>>, labels |-> <<1, 0>>,
          multimask_output |-> FALSE, use_previous_logits |-> TRUE]),
     Obj([command |-> "predict_click", session_id |-> "s2",
          points |-> <<<<1, 1>>>>, labels |-> <<1>>,
          use_previous_logits |-> TRUE]),
     Obj([command |-> "predict_click", session_id |-> "s1",
          points |-> <<<<0, 0>>, <<1, 1>>>>, labels |-> <<1>>]),
     Obj([command |-> "predict_click", session_id |-> "s1",
          points |-> <<<<0, 0>>>>]),
     Obj([command |-> "predict_text", session_id |-> "s1", prompt |-> "cat"]),
     Obj([command |-> "predict_text", session_id |-> "s2", prompt |-> "cat"]),
     Obj([command |-> "predict_text", session_id |-> "s1", prompt |-> ""]),
     Obj([command |-> "predict_text", session_id |-> "s3", prompt |-> "cat"]),
     Obj([command |-> "crop_from_mask", session_id |-> "s1", mask_index |-> 0,
          output_path |-> "crops/out.png"]),
     Obj([command |-> "crop_from_mask", session_id |-> "s1", mask_index |-> 1,
          output_path |-> "crops/out.png", background_mode |-> "white",
          padding |-> 0]),
     Obj([command |-> "crop_from_mask", session_id |-> "s1", mask_index |-> -1,
          output_path |-> "out.png", background_mode |-> "black",
          padding |-> 1]),
     Obj([command |-> "crop_from_mask", session_id |-> "s1", mask_index |-> 5,
          output_path |-> "crops/out.png"]),
     Obj([command |-> "crop_from_mask", session_id |-> "s1", mask_index |-> 0,
          output_path |-> "crops/out.png", background_mode |-> "sepia"]),
     Obj([command |-> "crop_from_mask", session_id |-> "s2", mask_index |-> 0,
          output_path |-> "out.png", background_mode |-> "original",
          padding |-> 0]),
     Obj([command |-> "crop_from_mask", session_id |-> "s1", mask_index |-> 0])}

\* Outcomes of the external calls one command can make.
Ext(model_raises, choice, render_raises, fsfail) ==
    [model_raises |-> model_raises, choice |-> choice,
     render_raises |-> render_raises, fs |-> fsfail]

NoExt == Ext(FALSE, "masks", FALSE, "ok")

\* -------------------------------------------------------------------- state
VARIABLES
    pc,          \* where the process is: "init", "constructed", "waiting"
                 \* (blocked on stdin), "handling", "exited", "failed"
    model,       \* self.model: None until _load_model has built it
    sessions,    \* self.sessions
    fs,          \* directories and files written by crop_from_mask
    line,        \* the stripped request line being handled / last handled
    nlines,      \* lines consumed from stdin
    nreq,        \* non-blank lines consumed from stdin
    out,         \* stdout: the readiness line and, per response, the number
                 \* of the request it answers and its success field
    response,    \* the response object written for `line`
    call,        \* the external model call made while handling `line`
    exit_by,     \* why run() returned: "eof", "interrupt", "fatal"
    loaded,      \* history: the ids whose last successful load_image was
                 \* not followed by a successful clear_session
    hist,        \* history, per id in `loaded`, since its last successful
                 \* load_image: whether a prediction succeeded, and the
                 \* logits the last successful predict_click left stored
    aug          \* augment.py, a separate program: the call of
                 \* augment_image in progress, or its result

vars == <<pc, model, sessions, fs, line, nlines, nreq, out, response, call,
          exit_by, loaded, hist, aug>>

NoLine == [raw |-> "none"]

\* augment_image is not running.
AugIdle == [pc |-> "idle"]

NoResponse == [status |-> "none"]

Ready == [status |-> "ready"]

Init ==
    /\ pc = "init"
    /\ model = None
    /\ sessions = <<>>
    /\ fs = EmptyFs
    /\ line = NoLine
    /\ nlines = 0
    /\ nreq = 0
    /\ out = <<>>
    /\ response = NoResponse
    /\ call = NoCall
    /\ exit_by = "running"
    /\ loaded = {}
    /\ hist = <<>>
    /\ aug = AugIdle

\* SAM3Service(): _load_model builds the model and the processor.
LoadModel ==
    /\ pc = "init"
    /\ model' = [py |-> "Sam3Model"]
    /\ pc' = "constructed"
    /\ UNCHANGED <<sessions, fs, line, nlines, nreq, out, response, call,
                   exit_by, loaded, hist, aug>>

\* Variant: _load_model logs the error without re-raising it.
LoadModelFails_swallowed ==
    /\ pc = "init"
    /\ pc' = "constructed"
    /\ UNCHANGED <<model, sessions, fs, line, nlines, nreq, out, response,
                   call, exit_by, loaded, hist, aug>>

\* SAM3Service(): _load_model raises; it logs and re-raises, the exception
\* leaves __init__ and __main__ never calls run().
LoadModelFails ==
    /\ pc = "init"
    /\ pc' = "failed"
    /\ UNCHANGED <<model, sessions, fs, line, nlines, nreq, out, response,
                   call, exit_by, loaded, hist, aug>>

\* Variant: run() enters the loop without the readiness line.
RunStart_silent ==
    /\ pc = "constructed"
    /\ pc' = "waiting"
    /\ UNCHANGED <<model, sessions, fs, line, nlines, nreq, out, response,
                   call, exit_by, loaded, hist, aug>>

\* run(): the readiness line, then the loop.
RunStart ==
    /\ pc = "constructed"
    /\ out' = Append(out, Ready)
    /\ pc' = "waiting"
    /\ UNCHANGED <<model, sessions, fs, line, nlines, nreq, response, call,
                   exit_by, loaded, hist, aug>>

\* Variant: the next line is read while a request is still being handled.
ReadLine_eager ==
    /\ pc \in {"waiting", "handling"}
    /\ nlines < MaxLines
    /\ \E l \in Lines :
        /\ nlines' = nlines + 1
        /\ IF Strip(l).raw = ""
           THEN UNCHANGED <<pc, line, nreq, response, call>>
           ELSE /\ pc' = "handling"
                /\ line' = Strip(l)
                /\ nreq' = nreq + 1
                /\ response' = NoResponse
                /\ call' = NoCall
    /\ UNCHANGED <<model, sessions, fs, out, exit_by, loaded, hist, aug>>

\* for line in sys.stdin: line.strip(); blank lines are skipped.
ReadLine ==
    /\ pc = "waiting"
    /\ nlines < MaxLines
    /\ \E l \in Lines :
        /\ nlines' = nlines + 1
        /\ IF Strip(l).raw = ""
           THEN UNCHANGED <<pc, line, nreq, response, call>>
           ELSE /\ pc' = "handling"
                /\ line' = Strip(l)
                /\ nreq' = nreq + 1
                /\ response' = NoResponse
                /\ call' = NoCall
    /\ UNCHANGED <<model, sessions, fs, out, exit_by, loaded, hist, aug>>

\* Which branch of the loop body and of handle_command the line takes.
Kind(l) ==
    CASE l.raw = "{bad" -> "malformed"
      [] l.raw = "5" -> "nonobject"
      [] l.raw = "json" ->
            IF CommandStr(l.body) \in {"load_image", "predict_click",
                   "predict_text", "clear_session", "crop_from_mask", "ping"}
            THEN CommandStr(l.body) ELSE "unknown"
      [] OTHER -> "none"

\* The history of successful loads and clears, read off the request and the
\* response written for it.
Loaded(was, request, written) ==
    IF Len(written) = 0 \/ ~written[1].success THEN was
    ELSE IF Kind(request) = "load_image"
    THEN was \cup {request.body.session_id}
    ELSE IF Kind(request) = "clear_session"
    THEN was \ {request.body.session_id}
    ELSE was

\* The fields handle_command subscripts for a command, in the order read.
Required(kind) ==
    CASE kind = "load_image" -> <<"image_path", "session_id">>
      [] kind = "predict_click" -> <<"session_id", "points", "labels">>
      [] kind = "predict_text" -> <<"session_id", "prompt">>
      [] kind = "clear_session" -> <<"session_id">>
      [] kind = "crop_from_mask" -> <<"session_id", "mask_index", "output_path">>
      [] OTHER -> <<>>

\* The request reaches its handler: it is an object and carries every field
\* the dispatcher subscripts for its command.
Dispatched(l) ==
    l.raw = "json" /\ FirstMissing(l.body, Required(Kind(l))) = ""

\* The history kept for an id from its last successful load_image on:
\*   ran        a predict_click or predict_text was handled for it
\*   clicked    a predict_click was handled for it
\*   predicted  one of them was answered with success
\*   by         the command of the most recent prediction answered with success
\*   masks, scores   the masks and scores of that response
\*   num_masks  num_masks of the most recent predict_click answered with
\*              success (-1 when there was none)
\*   logits     the logits that predict_click left stored
HistFresh ==
    [ran |-> FALSE, clicked |-> FALSE, predicted |-> FALSE, by |-> "none",
     masks |-> <<>>, scores |-> <<>>, num_masks |-> -1, logits |-> None]

HistClick(h, written, session) ==
    IF written.success
    THEN [ran |-> TRUE, clicked |-> TRUE, predicted |-> TRUE,
          by |-> "predict_click", masks |-> written.masks,
          scores |-> written.scores, num_masks |-> written.num_masks,
          logits |-> session.logits]
    ELSE [h EXCEPT !.ran = TRUE, !.clicked = TRUE]

HistText(h, written) ==
    IF written.success
    THEN [h EXCEPT !.ran = TRUE, !.predicted = TRUE, !.by = "predict_text",
                   !.masks = written.masks, !.scores = written.scores]
    ELSE [h EXCEPT !.ran = TRUE]

\* The history after a request, read off the request, the response written
\* for it and the store it left.
Hist(was, request, written, store) ==
    IF Len(written) = 0 \/ ~Dispatched(request) THEN was
    ELSE CASE Kind(request) = "load_image" /\ written[1].success ->
                StorePut(was, request.body.session_id, HistFresh)
           [] Kind(request) = "clear_session" /\ written[1].success ->
                StoreDel(was, request.body.session_id)
           [] Kind(request) = "predict_click"
              /\ request.body.session_id \in DOMAIN was ->
                [was EXCEPT ![request.body.session_id] =
                    HistClick(@, written[1], store[request.body.session_id])]
           [] Kind(request) = "predict_text"
              /\ request.body.session_id \in DOMAIN was ->
                [was EXCEPT ![request.body.session_id] =
                    HistText(@, written[1])]
           [] OTHER -> was

\* stdout after print(json.dumps(response)) for each response written.
Printed(stream, written, req) ==
    stream \o [i \in 1..Len(written) |->
                [status |-> "response", req |-> req,
                 success |-> written[i].success]]

\* The loop body on the line read: parse, dispatch, print the response.
Body(ext) ==
    \E r \in {run_body(sessions, fs, line, ext)} :
        /\ sessions' = r.sessions
        /\ fs' = r.fs
        /\ call' = r.call
        /\ out' = Printed(out, r.written, nreq)
        /\ response' = IF Len(r.written) > 0 THEN r.written[Len(r.written)]
                       ELSE NoResponse
        /\ loaded' = Loaded(loaded, line, r.written)
        /\ hist' = Hist(hist, line, r.written, r.sessions)
        /\ pc' = IF r.fatal THEN "exited" ELSE "waiting"
        /\ exit_by' = IF r.fatal THEN "fatal" ELSE exit_by
        /\ UNCHANGED <<model, line, nlines, nreq, aug>>

InvalidJson == pc = "handling" /\ Kind(line) = "malformed" /\ Body(NoExt)

NotAnObject == pc = "handling" /\ Kind(line) = "nonobject" /\ Body(NoExt)

UnknownCommand == pc = "handling" /\ Kind(line) = "unknown" /\ Body(NoExt)

Ping == pc = "handling" /\ Kind(line) = "ping" /\ Body(NoExt)

LoadImage ==
    /\ pc = "handling" /\ Kind(line) = "load_image"
    /\ \E model_raises \in BOOLEAN : Body(Ext(model_raises, "masks", FALSE, "ok"))

PredictClick ==
    /\ pc = "handling" /\ Kind(line) = "predict_click"
    /\ \E model_raises \in BOOLEAN, choice \in {"masks", "zero"},
          render_raises \in BOOLEAN :
            Body(Ext(model_raises, choice, render_raises, "ok"))

PredictText ==
    /\ pc = "handling" /\ Kind(line) = "predict_text"
    /\ \E model_raises \in BOOLEAN, choice \in {"boxes", "noboxes", "zero"},
          render_raises \in BOOLEAN :
            Body(Ext(model_raises, choice, render_raises, "ok"))

ClearSession == pc = "handling" /\ Kind(line) = "clear_session" /\ Body(NoExt)

CropFromMask ==
    /\ pc = "handling" /\ Kind(line) = "crop_from_mask"
    /\ \E render_raises \in BOOLEAN, fsfail \in {"ok", "makedirs", "save"} :
            Body(Ext(FALSE, "masks", render_raises, fsfail))

\* sys.stdin is closed: the for loop ends and run() returns.
EndOfInput ==
    /\ pc = "waiting"
    /\ pc' = "exited"
    /\ exit_by' = "eof"
    /\ UNCHANGED <<model, sessions, fs, line, nlines, nreq, out, response,
                   call, loaded, hist, aug>>

\* KeyboardInterrupt while blocked on stdin or inside the loop body: the
\* outer handler logs and run() returns.
Interrupt ==
    /\ pc \in {"waiting", "handling"}
    /\ pc' = "exited"
    /\ exit_by' = "interrupt"
    /\ UNCHANGED <<model, sessions, fs, line, nlines, nreq, out, response,
                   call, loaded, hist, aug>>

Next ==
    \/ LoadModel
    \/ LoadModelFails
    \/ RunStart
    \/ ReadLine
    \/ InvalidJson
    \/ NotAnObject
    \/ UnknownCommand
    \/ Ping
    \/ LoadImage
    \/ PredictClick
    \/ PredictText
    \/ ClearSession
    \/ CropFromMask
    \/ EndOfInput
    \/ Interrupt

Spec == Init /\ [][Next]_vars

\* ------------------------------------------------- crop geometry, bounded
\* A second specification for crop_from_mask alone: the process has loaded
\* an image of any size up to MaxSide x MaxSide as s1 and answered one
\* predict_click for which the model returned one mask; one crop request
\* with any padding in -MaxPad..MaxPad, any background mode and either
\* output path is then read and handled.
GeomImage(w, h) == [mode |-> "RGB", size |-> <<w, h>>, path |-> "img.png"]

\* The masks the model returns there: every rectangle of foreground
\* pixels, every pair of pixels, and the mask with no foreground.
GeomMasks(w, h) ==
    {Mask(<<w, h>>, (r1..r2) \X (c1..c2)) :
        r1 \in 0..(h - 1), r2 \in 0..(h - 1),
        c1 \in 0..(w - 1), c2 \in 0..(w - 1)}
    \cup {Mask(<<w, h>>, {<<r1, c1>>, <<r2, c2>>}) :
        r1 \in 0..(h - 1), r2 \in 0..(h - 1),
        c1 \in 0..(w - 1), c2 \in 0..(w - 1)}

GeomClickLine ==
    Obj([command |-> "predict_click", session_id |-> "s1",
         points |-> <<<<0, 0>>>>, labels |-> <<1>>,
         multimask_output |-> FALSE])

\* The store after load_image of the image as s1.
GeomLoaded(w, h) ==
    load_decoded(<<>>, EmptyFs, "img.png", "s1", GeomImage(w, h), NoExt).sessions

\* What predict_inst returned for the click.
GeomOut(w, h, mask) ==
    [masks |-> <<mask>>, scores |-> <<8>>,
     logits |-> <<Logit(GeomLoaded(w, h)["s1"].state, 1)>>]

\* The outcome of the predict_click handler for that model output.
GeomClicked(w, h, mask) ==
    click_response(
        StorePut(GeomLoaded(w, h), "s1",
                 click_store(GeomLoaded(w, h)["s1"], GeomOut(w, h, mask))),
        EmptyFs,
        click_kwargs(GeomLoaded(w, h)["s1"], <<<<0, 0>>>>, <<1>>, FALSE, FALSE),
        GeomOut(w, h, mask), NoExt)

BackgroundModes == {"transparent", "white", "black", "original", "sepia"}

GeomLines ==
    {Obj([command |-> "crop_from_mask", session_id |-> "s1",
          mask_index |-> 0, output_path |-> path, background_mode |-> mode,
          padding |-> padding]) :
        path \in {"crops/out.png", "out.png"}, mode \in BackgroundModes,
        padding \in (0 - MaxPad)..MaxPad}
    \cup {Obj([command |-> "crop_from_mask", session_id |-> "s1",
               mask_index |-> 0, output_path |-> "out.png"])}

GeomInit ==
    \E w \in 1..MaxSide, h \in 1..MaxSide :
        \E mask \in GeomMasks(w, h) :
            \E r \in {GeomClicked(w, h, mask)} :
                /\ pc = "waiting"
                /\ model = [py |-> "Sam3Model"]
                /\ sessions = r.sessions
                /\ fs = EmptyFs
                /\ line = GeomClickLine
                /\ nlines = 2
                /\ nreq = 2
                /\ out = Printed(Printed(<<Ready>>,
                                         <<[success |-> TRUE]>>, 1),
                                 <<r.response>>, 2)
                /\ response = r.response
                /\ call = r.call
                /\ exit_by = "running"
                /\ loaded = {"s1"}
                /\ hist = Hist([s1 |-> HistFresh], GeomClickLine,
                               <<r.response>>, r.sessions)
                /\ aug = AugIdle

\* The third line read is a crop request.
GeomReadLine ==
    /\ pc = "waiting"
    /\ nlines < 3
    /\ \E l \in GeomLines :
        /\ nlines' = nlines + 1
        /\ pc' = "handling"
        /\ line' = Strip(l)
        /\ nreq' = nreq + 1
        /\ response' = NoResponse
        /\ call' = NoCall
    /\ UNCHANGED <<model, sessions, fs, out, exit_by, loaded, hist, aug>>

GeomNext == GeomReadLine \/ CropFromMask

GeomSpec == GeomInit /\ [][GeomNext]_vars

\* ------------------------------------------------------------- augment.py
\* augment_image of augment.py, a program of its own: the boxes and labels
\* it receives, the ones it hands to the augmentation pipeline and the
\* result it returns. A specification of its own calls it once on every
\* argument list up to MaxBoxes boxes.
MaxBoxes == 3

\* A list of numbers, or a list of four items one of which is a string.
Box(items, numeric) == [py |-> "list", items |-> items, numeric |-> numeric]

\* The boxes a caller passes: inside the image, reaching outside it, of no
\* width, inverted, wholly outside, too short, not numeric, and None.
AugBoxes ==
    {Box(<<0, 0, 1, 1>>, TRUE), Box(<<1, 0, 3, 2>>, TRUE),
     Box(<<0 - 1, 0 - 1, 1, 1>>, TRUE), Box(<<1, 1, 1, 2>>, TRUE),
     Box(<<2, 1, 0, 0>>, TRUE), Box(<<5, 5, 9, 9>>, TRUE),
     Box(<<0, 0, 1>>, TRUE), Box(<<0, 0, 1, 1>>, FALSE), None}

\* (img_width, img_height) of the images read.
AugSizes == {<<2, 2>>, <<3, 2>>}

AugLabels == <<"a", "b", "c", "d", "e">>

\* convert_bbox_format(bbox, img_width, img_height, from_format): the
\* pascal_voc box, or the exception of the unpacking, of x + w on a string
\* or of an unknown format.
convert_bbox_format(bbox, from_format) ==
    IF from_format = "xywh"
    THEN IF bbox = None THEN [raises |-> TRUE]
         ELSE IF Len(bbox.items) # 4 \/ ~bbox.numeric THEN [raises |-> TRUE]
         ELSE [raises |-> FALSE,
               value |-> Box(<<bbox.items[1], bbox.items[2],
                               bbox.items[1] + bbox.items[3],
                               bbox.items[2] + bbox.items[4]>>, TRUE)]
    ELSE IF from_format = "xyxy"
    THEN [raises |-> FALSE, value |-> bbox]
    ELSE [raises |-> TRUE]

\* max(0, min(v, length))
ClampTo(v, length) ==
    IF (IF v < length THEN v ELSE length) > 0
    THEN (IF v < length THEN v ELSE length) ELSE 0

\* x1, y1, x2, y2 = pascal_bbox, each clamped to the image.
clamp_bbox(pascal_bbox, img_width, img_height) ==
    <<ClampTo(pascal_bbox.items[1], img_width),
      ClampTo(pascal_bbox.items[2], img_height),
      ClampTo(pascal_bbox.items[3], img_width),
      ClampTo(pascal_bbox.items[4], img_height)>>

\* Variant: a clamped box is kept whatever its width and height.
try_bbox_unchecked(bbox, img_width, img_height, bbox_format) ==
    IF convert_bbox_format(bbox, bbox_format).raises THEN <<>>
    ELSE IF convert_bbox_format(bbox, bbox_format).value = None THEN <<>>
    ELSE IF \/ Len(convert_bbox_format(bbox, bbox_format).value.items) # 4
            \/ ~convert_bbox_format(bbox, bbox_format).value.numeric
    THEN <<>>
    ELSE <<clamp_bbox(convert_bbox_format(bbox, bbox_format).value,
                      img_width, img_height)>>

\* The body of the try for one (bbox, label) pair: the boxes it appends to
\* pascal_bboxes, none when an exception is caught (the conversion, the
\* unpacking of anything but four items, min() on a string) or when the
\* clamped box has no width or no height.
try_bbox(bbox, img_width, img_height, bbox_format) ==
    IF convert_bbox_format(bbox, bbox_format).raises THEN <<>>
    ELSE IF convert_bbox_format(bbox, bbox_format).value = None THEN <<>>
    ELSE IF \/ Len(convert_bbox_format(bbox, bbox_format).value.items) # 4
            \/ ~convert_bbox_format(bbox, bbox_format).value.numeric
    THEN <<>>
    ELSE IF /\ clamp_bbox(convert_bbox_format(bbox, bbox_format).value,
                          img_width, img_height)[3]
               > clamp_bbox(convert_bbox_format(bbox, bbox_format).value,
                            img_width, img_height)[1]
            /\ clamp_bbox(convert_bbox_format(bbox, bbox_format).value,
                          img_width, img_height)[4]
               > clamp_bbox(convert_bbox_format(bbox, bbox_format).value,
                            img_width, img_height)[2]
    THEN <<clamp_bbox(convert_bbox_format(bbox, bbox_format).value,
                      img_width, img_height)>>
    ELSE <<>>

\* for bbox, label in zip(bboxes, labels): pascal_bboxes and valid_labels
\* after the loop.
RECURSIVE valid_boxes(_, _, _, _, _)
valid_boxes(bboxes, labels, img_width, img_height, bbox_format) ==
    IF Len(bboxes) = 0 \/ Len(labels) = 0
    THEN [pascal_bboxes |-> <<>>, valid_labels |-> <<>>]
    ELSE [pascal_bboxes |->
              try_bbox(Head(bboxes), img_width, img_height, bbox_format)
              \o valid_boxes(Tail(bboxes), Tail(labels), img_width,
                             img_height, bbox_format).pascal_bboxes,
          valid_labels |->
              (IF try_bbox(Head(bboxes), img_width, img_height,
                           bbox_format) = <<>>
               THEN <<>> ELSE <<Head(labels)>>)
              \o valid_boxes(Tail(bboxes), Tail(labels), img_width,
                             img_height, bbox_format).valid_labels]

\* pipeline(image=image, bboxes=pascal_bboxes, class_labels=valid_labels)
AugPipelineCall(valid) ==
    [fn |-> "pipeline", bboxes |-> valid.pascal_bboxes,
     class_labels |-> valid.valid_labels]

\* The result dict once the pipeline returned `kept` boxes and labels.
aug_result(args, kept) ==
    [success |-> TRUE, width |-> args.size[1], height |-> args.size[2],
     bboxes |-> kept.pascal_bboxes, labels |-> kept.valid_labels,
     original_bbox_count |-> Len(args.bboxes),
     result_bbox_count |-> Len(kept.pascal_bboxes)]

\* augment_image from the filtered boxes on: the pipeline may raise, return
\* every box, or return none (a transform moved them out of the frame).
aug_apply(args, valid, ext) ==
    IF valid.pascal_bboxes = <<>>
    THEN [pipeline |-> NoCall, saved |-> FALSE,
          result |-> [success |-> FALSE, error |-> "No valid bounding boxes"]]
    ELSE IF ext.pipeline = "raises"
    THEN [pipeline |-> AugPipelineCall(valid), saved |-> FALSE,
          result |-> [success |-> FALSE, error |-> "Augmentation failed: error"]]
    ELSE [pipeline |-> AugPipelineCall(valid),
          saved |-> args.output_path # "",
          result |-> aug_result(args,
                        IF ext.pipeline = "keeps" THEN valid
                        ELSE [pascal_bboxes |-> <<>>, valid_labels |-> <<>>])]

\* augment_image(image_path, bboxes, labels, augmentations, output_path,
\* bbox_format, intensity)
augment_image(args, ext) ==
    IF ~ext.imread
    THEN [pipeline |-> NoCall, saved |-> FALSE,
          result |-> [success |-> FALSE,
                      error |-> "Failed to load image: " \o args.image_path]]
    ELSE aug_apply(args,
                   valid_boxes(args.bboxes, args.labels, args.size[1],
                               args.size[2], args.bbox_format),
                   ext)

\* The argument lists: up to MaxBoxes boxes, with a label each or with the
\* last label missing.
AugArgs ==
    {[image_path |-> "img.jpg", size |-> size, bboxes |-> bboxes,
      labels |-> SubSeq(AugLabels, 1, Len(bboxes) - short),
      bbox_format |-> bbox_format, output_path |-> output_path] :
        size \in AugSizes,
        bboxes \in UNION {[1..n -> AugBoxes] : n \in 0..MaxBoxes},
        short \in {0, 1},
        bbox_format \in {"xyxy", "xywh", "yolo"},
        output_path \in {"", "aug/out.jpg"}}

AugInit ==
    /\ pc = "init"
    /\ model = None
    /\ sessions = <<>>
    /\ fs = EmptyFs
    /\ line = NoLine
    /\ nlines = 0
    /\ nreq = 0
    /\ out = <<>>
    /\ response = NoResponse
    /\ call = NoCall
    /\ exit_by = "running"
    /\ loaded = {}
    /\ hist = <<>>
    /\ \E args \in AugArgs : aug = [pc |-> "called", args |-> args]

\* One call of augment_image, from cv2.imread to the result and the image
\* written to output_path.
AugmentImage ==
    /\ aug.pc = "called"
    /\ \E imread \in BOOLEAN, pipeline \in {"raises", "keeps", "drops"} :
        \E r \in {augment_image(aug.args,
                                [imread |-> imread, pipeline |-> pipeline])} :
            /\ aug' = [pc |-> "returned", args |-> aug.args,
                       pipeline |-> r.pipeline, result |-> r.result]
            /\ fs' = IF r.saved
                     THEN SaveFile(MakeDirs(fs, Dirname(aug.args.output_path)),
                                   aug.args.output_path,
                                   [mode |-> "RGB", size |-> aug.args.size])
                     ELSE fs
    /\ UNCHANGED <<pc, model, sessions, line, nlines, nreq, out, response,
                   call, exit_by, loaded, hist>>

AugNext == AugmentImage

AugSpec == AugInit /\ [][AugNext]_vars

\* ------------------------------------------------------------------- claims
\* The response entries of stdout, in the order written.
Responses == SelectSeq(out, LAMBDA e : e.status = "response")

\* The command name a request object carries, as the error text prints it.
SuppliedCommand(request) ==
    IF "command" \in DOMAIN request.body THEN request.body.command ELSE "None"

\* C1: every non-blank line read gets exactly one response, and the i-th
\* response written answers the i-th request: while a request is being
\* handled all earlier ones are answered, and once it is handled so is it
\* (only a KeyboardInterrupt can leave the last request unanswered).
C1_OneResponsePerRequestInOrder ==
    /\ \A i \in 1..Len(Responses) : Responses[i].req = i
    /\ Len(Responses) \in {nreq - 1, nreq}
    /\ pc = "handling" => Len(Responses) = nreq - 1
    /\ (pc # "handling" /\ exit_by # "interrupt") => Len(Responses) = nreq

C1_Witness ==
    /\ pc = "waiting" /\ nreq >= 3 /\ Len(Responses) = nreq
    /\ \E i, j \in 1..Len(Responses) :
          Responses[i].success /\ ~Responses[j].success

\* C2: once the model is loaded and run() has started, the readiness line is
\* the first line of stdout and occurs nowhere else; before that stdout is
\* empty and no line has been read.
C2_ReadyOnceBeforeRequests ==
    /\ pc \in {"init", "constructed", "failed"} => (out = <<>> /\ nlines = 0)
    /\ pc \in {"waiting", "handling", "exited"} =>
          /\ model # None
          /\ Len(out) >= 1 /\ out[1] = Ready
          /\ \A i \in 2..Len(out) : out[i] # Ready

C2_Witness ==
    /\ pc = "waiting" /\ nreq >= 2 /\ Len(out) >= 3
    /\ out[1] = Ready /\ out[2].status = "response"

\* C3: while the model is not loaded, and for good once loading failed,
\* stdout is empty and no line is read or answered; run() is never entered.
C3_LoadFailureNeverReady ==
    /\ pc = "failed" => model = None
    /\ model = None =>
          /\ pc \in {"init", "failed"}
          /\ out = <<>> /\ nlines = 0 /\ nreq = 0
          /\ response = NoResponse /\ DOMAIN sessions = {}

C3_Witness == pc = "failed" /\ model = None /\ out = <<>> /\ nlines = 0

\* C4: a failure response never ends the loop: run() returns only on end of
\* input or KeyboardInterrupt, and after a success:false response the
\* process is blocked on stdin for the next line unless one of the two
\* happened.
C4_FailureNeverEndsLoop ==
    /\ exit_by \in {"running", "eof", "interrupt"}
    /\ (pc = "exited") <=> (exit_by # "running")
    /\ (/\ response # NoResponse /\ ~response.success
        /\ pc # "handling" /\ exit_by = "running") => pc = "waiting"

C4_Witness ==
    /\ pc = "waiting" /\ response # NoResponse /\ response.success
    /\ \E i \in 1..(Len(Responses) - 2) :
          /\ ~Responses[i].success
          /\ ~Responses[i + 1].success
          /\ Responses[i + 2].success

\* The payload fields of a success response, by command.
PayloadFields(kind) ==
    CASE kind = "load_image" -> {"width", "height"}
      [] kind = "predict_click" -> {"masks", "scores", "num_masks"}
      [] kind = "predict_text" -> {"masks", "scores", "num_instances"}
      [] kind = "crop_from_mask" ->
            {"output_path", "bbox", "crop_width", "crop_height", "mask_area"}
      [] OTHER -> {"message"}

\* C5: every response has a boolean success; it has an error string exactly
\* when success is false (and then nothing else), and a success response
\* carries its command's payload fields and no error.
C5_ResponseShape ==
    response # NoResponse =>
        /\ "success" \in DOMAIN response
        /\ response.success \in BOOLEAN
        /\ ("error" \in DOMAIN response) <=> ~response.success
        /\ ~response.success =>
              (DOMAIN response = {"success", "error"}
               /\ response.error \in STRING)
        /\ response.success =>
              (/\ Kind(line) \in {"load_image", "predict_click", "predict_text",
                                  "clear_session", "crop_from_mask", "ping"}
               /\ PayloadFields(Kind(line)) \subseteq DOMAIN response)

C5_Witness ==
    /\ Kind(line) = "crop_from_mask" /\ response # NoResponse
    /\ response.success /\ "bbox" \in DOMAIN response
    /\ \E i \in 1..Len(Responses) : ~Responses[i].success

\* C6: a line that is not valid JSON is answered {success:false,
\* error:"Invalid JSON"}, the store is left as it was and the loop waits for
\* the next line.
C6_InvalidJson ==
    [][(pc = "handling" /\ Kind(line) = "malformed" /\ exit_by' # "interrupt")
        => (/\ response' = [success |-> FALSE, error |-> "Invalid JSON"]
            /\ sessions' = sessions
            /\ pc' = "waiting")]_vars

C6_Witness ==
    /\ Kind(line) = "malformed" /\ pc = "waiting"
    /\ response = [success |-> FALSE, error |-> "Invalid JSON"]
    /\ DOMAIN sessions # {}

\* C7: a request object whose command is none of the six is answered
\* {success:false, error:"Unknown command: <name>"} with the name it
\* supplied, and the store is left as it was.
C7_UnknownCommand ==
    [][(pc = "handling" /\ Kind(line) = "unknown" /\ exit_by' # "interrupt")
        => (/\ response' = [success |-> FALSE,
                            error |-> "Unknown command: "
                                      \o SuppliedCommand(line)]
            /\ sessions' = sessions)]_vars

C7_Witness ==
    /\ Kind(line) = "unknown" /\ pc = "waiting"
    /\ response = [success |-> FALSE, error |-> "Unknown command: bogus"]
    /\ DOMAIN sessions # {}

\* C8: whatever the store holds and whatever succeeded or failed before,
\* the response written for a ping has success true.
C8_PingSucceeds ==
    (Kind(line) = "ping" /\ pc = "waiting") =>
        (response # NoResponse /\ response.success = TRUE)

C8_Witness ==
    /\ Kind(line) = "ping" /\ pc = "waiting"
    /\ response # NoResponse /\ response.success
    /\ Cardinality(DOMAIN sessions) = 2
    /\ \E i \in 1..Len(Responses) : ~Responses[i].success

\* C9: handling a ping changes neither the session store (ids and every
\* field of every session) nor the files; handlers read nothing else, so
\* the other commands answer as they would without the ping.
C9_PingLeavesStore ==
    [][(pc = "handling" /\ Kind(line) = "ping")
        => (sessions' = sessions /\ fs' = fs)]_vars

C9_Witness ==
    /\ Kind(line) = "ping" /\ pc = "waiting" /\ response # NoResponse
    /\ \E id \in DOMAIN sessions :
          /\ sessions[id].logits # None
          /\ "last_masks" \in DOMAIN sessions[id]

\* C10: the ids in the store are exactly those whose last successful
\* load_image was not followed by a successful clear_session, so every id
\* in the store was supplied by a load_image request.
C10_StoreIsLoadedNotCleared == DOMAIN sessions = loaded

C10_Witness ==
    /\ Kind(line) = "clear_session" /\ pc = "waiting"
    /\ response # NoResponse /\ response.success
    /\ DOMAIN sessions # {} /\ DOMAIN sessions = loaded

\* The f-string a handler formats for a session id that is not in the store.
NotFoundText(session_id) == "Session " \o session_id \o " not found"

\* C11: predict_click, predict_text and crop_from_mask called with a
\* session id that is not in the store answer success:false with the
\* session-not-found error, make no model call, write nothing to the file
\* system and leave the store as it was.
C11_UnknownSessionRejected ==
    [][(/\ pc = "handling"
        /\ Kind(line) \in {"predict_click", "predict_text", "crop_from_mask"}
        /\ Dispatched(line)
        /\ line.body.session_id \notin DOMAIN sessions
        /\ exit_by' # "interrupt")
        => (/\ response' = [success |-> FALSE,
                            error |-> NotFoundText(line.body.session_id)]
            /\ call' = NoCall
            /\ fs' = fs
            /\ sessions' = sessions)]_vars

C11_Witness ==
    /\ pc = "waiting" /\ Kind(line) = "crop_from_mask" /\ Dispatched(line)
    /\ line.body.session_id \notin DOMAIN sessions
    /\ response = [success |-> FALSE,
                   error |-> NotFoundText(line.body.session_id)]
    /\ \E id \in DOMAIN sessions : "last_masks" \in DOMAIN sessions[id]
    /\ fs = EmptyFs

\* C12: clear_session of an id that is not in the store answers
\* {success:false, error:"Session not found"} and leaves the store as it
\* was; and when a clear_session was just answered with success, the same
\* request read next finds its id absent, so it is answered that way.
C12_ClearUnknownSession ==
    [][/\ (/\ pc = "handling" /\ Kind(line) = "clear_session"
           /\ Dispatched(line)
           /\ line.body.session_id \notin DOMAIN sessions
           /\ exit_by' # "interrupt")
           => (/\ response' = [success |-> FALSE, error |-> "Session not found"]
               /\ sessions' = sessions)
       /\ (/\ pc = "waiting" /\ Kind(line) = "clear_session"
           /\ response # NoResponse /\ response.success
           /\ pc' = "handling" /\ line' = line)
           => line'.body.session_id \notin DOMAIN sessions']_vars

\* The second clear of s1: a crop was written for s1, so s1 was loaded, and
\* it is gone, so a clear_session of s1 succeeded before this one.
C12_Witness ==
    /\ pc = "waiting" /\ Kind(line) = "clear_session" /\ Dispatched(line)
    /\ line.body.session_id = "s1" /\ "s1" \notin DOMAIN sessions
    /\ "crops/out.png" \in DOMAIN fs.files
    /\ response = [success |-> FALSE, error |-> "Session not found"]

\* C13: clear_session of an id that is in the store succeeds and removes
\* that session and no other; while the last successful load_image of an id
\* is followed by a successful clear_session (or there was none),
\* predict_click, predict_text and crop_from_mask on it answer
\* session-not-found.
C13_ClearRemovesSession ==
    [][/\ (/\ pc = "handling" /\ Kind(line) = "clear_session"
           /\ Dispatched(line)
           /\ line.body.session_id \in DOMAIN sessions
           /\ exit_by' # "interrupt")
           => (/\ response' # NoResponse /\ response'.success = TRUE
               /\ DOMAIN sessions' = DOMAIN sessions \ {line.body.session_id}
               /\ \A k \in DOMAIN sessions' : sessions'[k] = sessions[k])
       /\ (/\ pc = "handling"
           /\ Kind(line) \in {"predict_click", "predict_text", "crop_from_mask"}
           /\ Dispatched(line)
           /\ line.body.session_id \notin loaded
           /\ exit_by' # "interrupt")
           => response' = [success |-> FALSE,
                           error |-> NotFoundText(line.body.session_id)]]_vars

\* A predict_click on s1 after s1 was loaded, predicted on, cropped from
\* and cleared.
C13_Witness ==
    /\ pc = "waiting" /\ Kind(line) = "predict_click" /\ Dispatched(line)
    /\ line.body.session_id = "s1" /\ "s1" \notin loaded
    /\ "crops/out.png" \in DOMAIN fs.files
    /\ response = [success |-> FALSE, error |-> NotFoundText("s1")]

\* The error of crop_from_mask for a session that holds no masks.
NoMasksText == "No masks available. Run a prediction first."

\* C14: a successful load_image on an id already in the store leaves a
\* session with no logits, no last_masks and no last_scores: a
\* crop_from_mask on it answers the no-mask error and the kwargs of a
\* predict_click with use_previous_logits carry no mask_input.  The same
\* holds on the steps themselves: a crop on a session without last_masks
\* answers the no-mask error and writes nothing, and a predict_click on a
\* session without logits passes no mask_input.
C14_ReloadDiscardsDerived ==
    [][/\ (/\ pc = "handling" /\ Kind(line) = "load_image" /\ Dispatched(line)
           /\ line.body.session_id \in DOMAIN sessions
           /\ response' # NoResponse /\ response'.success)
           => (/\ line.body.session_id \in DOMAIN sessions'
               /\ sessions'[line.body.session_id].logits = None
               /\ "last_masks" \notin DOMAIN sessions'[line.body.session_id]
               /\ "last_scores" \notin DOMAIN sessions'[line.body.session_id]
               /\ \A fsfail \in {"ok", "makedirs", "save"} :
                     crop_from_mask(sessions', fs', line.body.session_id, 0,
                                    "crops/out.png", "transparent", 10,
                                    Ext(FALSE, "masks", FALSE, fsfail)).response
                       = [success |-> FALSE, error |-> NoMasksText]
               /\ click_kwargs(sessions'[line.body.session_id], <<<<0, 0>>>>,
                               <<1>>, TRUE, TRUE).mask_input = None)
       /\ (/\ pc = "handling" /\ Kind(line) = "crop_from_mask"
           /\ Dispatched(line)
           /\ line.body.session_id \in DOMAIN sessions
           /\ "last_masks" \notin DOMAIN sessions[line.body.session_id]
           /\ exit_by' # "interrupt")
           => (response' = [success |-> FALSE, error |-> NoMasksText]
               /\ fs' = fs)
       /\ (/\ pc = "handling" /\ Kind(line) = "predict_click"
           /\ Dispatched(line)
           /\ line.body.session_id \in DOMAIN sessions
           /\ sessions[line.body.session_id].logits = None
           /\ exit_by' # "interrupt")
           => (call' # NoCall /\ call'.mask_input = None)]_vars

\* The fourth request reloads s1 after a load, a prediction and a crop of
\* s1: the crop file exists and the session holds nothing derived.
C14_Witness ==
    /\ pc = "waiting" /\ nreq = 4 /\ Kind(line) = "load_image"
    /\ Dispatched(line) /\ line.body.session_id = "s1"
    /\ response # NoResponse /\ response.success
    /\ "crops/out.png" \in DOMAIN fs.files
    /\ sessions["s1"].logits = None
    /\ "last_masks" \notin DOMAIN sessions["s1"]

\* C15: a load_image whose image cannot be opened, or whose set_image call
\* raises, answers success:false; every load_image answered success:false
\* leaves the store (ids and every field of every session) and the files
\* as they were.
C15_FailedLoadLeavesStore ==
    [][(/\ pc = "handling" /\ Kind(line) = "load_image" /\ Dispatched(line)
        /\ exit_by' # "interrupt")
        => (/\ response' # NoResponse
            /\ (line.body.image_path \notin DOMAIN ImageFiles
                   => ~response'.success)
            /\ (call' # NoCall /\ response'.success
                   => line.body.session_id \in DOMAIN sessions')
            /\ ~load_image(sessions, fs, line.body.image_path,
                           line.body.session_id,
                           Ext(TRUE, "masks", FALSE, "ok")).response.success
            /\ (~response'.success => (sessions' = sessions /\ fs' = fs)))]_vars

\* set_image raised while reloading s1, which keeps the logits and masks
\* of its last prediction.
C15_Witness ==
    /\ pc = "waiting" /\ Kind(line) = "load_image" /\ Dispatched(line)
    /\ line.body.session_id = "s1"
    /\ response = [success |-> FALSE, error |-> ModelError]
    /\ call # NoCall /\ call.fn = "set_image"
    /\ "s1" \in DOMAIN sessions
    /\ sessions["s1"].logits # None
    /\ "last_masks" \in DOMAIN sessions["s1"]

\* C16: a predict_click with use_previous_logits=true on a session with no
\* successful prediction since its last successful load_image passes no
\* mask_input to the model, and its response, its model call and the store
\* it leaves are those of the same request with use_previous_logits=false
\* under some outcome of the model and of the rendering.
C16_FlagWithoutPriorPrediction ==
    [][(/\ pc = "handling" /\ Kind(line) = "predict_click" /\ Dispatched(line)
        /\ line.body.session_id \in DOMAIN sessions
        /\ line.body.session_id \in DOMAIN hist
        /\ ~hist[line.body.session_id].predicted
        /\ Get(line.body, "use_previous_logits", FALSE) = TRUE
        /\ exit_by' # "interrupt")
        => (/\ call' # NoCall /\ call'.mask_input = None
            /\ \E model_raises \in BOOLEAN, choice \in {"masks", "zero"},
                  render_raises \in BOOLEAN :
                  \E r \in {predict_click(
                               sessions, fs, line.body.session_id,
                               line.body.points, line.body.labels,
                               Get(line.body, "multimask_output", TRUE), FALSE,
                               Ext(model_raises, choice, render_raises, "ok"))} :
                      /\ response' = r.response
                      /\ sessions' = r.sessions
                      /\ call' = r.call)]_vars

\* C17: when predict_click is called with use_previous_logits=true on a
\* session that holds logits, the mask_input passed to the model is the
\* logits left stored by the most recent successful predict_click on that
\* session since its last successful load_image; without the flag no
\* mask_input is passed.
C17_PriorMaskIsOwnLatest ==
    [][(/\ pc = "handling" /\ Kind(line) = "predict_click" /\ Dispatched(line)
        /\ line.body.session_id \in DOMAIN sessions
        /\ line.body.session_id \in DOMAIN hist
        /\ exit_by' # "interrupt")
        => (/\ call' # NoCall
            /\ (/\ Get(line.body, "use_previous_logits", FALSE) = TRUE
                /\ sessions[line.body.session_id].logits # None)
                => call'.mask_input = hist[line.body.session_id].logits
            /\ Get(line.body, "use_previous_logits", FALSE) = FALSE
                => call'.mask_input = None)]_vars

\* The fields of a session that predictions derive: logits, last_masks and
\* last_scores (None where the key is absent).
Derived(session) ==
    [logits |-> session.logits,
     last_masks |-> Get(session, "last_masks", None),
     last_scores |-> Get(session, "last_scores", None)]

\* C18: after a predict_click answered with success, last_masks and
\* last_scores of the session are all the masks and scores the model
\* returned, in its order, and logits is the logits of the mask with the
\* greatest score, the lowest index among equals (when the model returned
\* no mask there is no such mask and logits stays as it was).
C18_StoresBestLogitsAndAllMasks ==
    [][(/\ pc = "handling" /\ Kind(line) = "predict_click" /\ Dispatched(line)
        /\ response' # NoResponse /\ response'.success)
        => (/\ line.body.session_id \in DOMAIN sessions
            /\ line.body.session_id \in DOMAIN sessions'
            /\ \E choice \in {"masks", "zero"} :
                \E o \in {PredictInst(sessions[line.body.session_id].state,
                                      Get(line.body, "multimask_output", TRUE),
                                      choice)} :
                    /\ response'.num_masks = Len(o.masks)
                    /\ sessions'[line.body.session_id].last_masks
                          = Array(o.masks)
                    /\ sessions'[line.body.session_id].last_scores
                          = Array(o.scores)
                    /\ Len(o.logits) > 0 =>
                          \E i \in 1..Len(o.scores) :
                              /\ \A j \in 1..Len(o.scores) :
                                    o.scores[j] <= o.scores[i]
                              /\ \A j \in 1..(i - 1) : o.scores[j] < o.scores[i]
                              /\ sessions'[line.body.session_id].logits
                                    = Array(<<o.logits[i]>>)
                    /\ Len(o.logits) = 0 =>
                          sessions'[line.body.session_id].logits
                             = sessions[line.body.session_id].logits)]_vars

\* Three masks came back with scores 5, 9, 9: the logits kept are those of
\* the second.
C18_Witness ==
    /\ pc = "waiting" /\ Kind(line) = "predict_click" /\ Dispatched(line)
    /\ response # NoResponse /\ response.success /\ response.num_masks = 3
    /\ sessions[line.body.session_id].last_scores = Array(<<5, 9, 9>>)
    /\ Len(sessions[line.body.session_id].last_masks.data) = 3
    /\ sessions[line.body.session_id].logits
          = Array(<<Logit(sessions[line.body.session_id].state, 2)>>)

\* C19: in a predict_click response with success, masks and scores are as
\* long as num_masks says and as the model's output is, and the i-th mask
\* and score are the model's i-th mask (rendered) and i-th score.
C19_MasksScoresAligned ==
    (/\ Kind(line) = "predict_click" /\ response # NoResponse
     /\ response.success)
    => (/\ Len(response.masks) = response.num_masks
        /\ Len(response.scores) = response.num_masks
        /\ line.body.session_id \in DOMAIN sessions
        /\ call # NoCall
        /\ \E choice \in {"masks", "zero"} :
            \E o \in {PredictInst(call.state, call.multimask_output, choice)} :
                /\ Len(o.masks) = response.num_masks
                /\ \A i \in 1..Len(o.masks) :
                      /\ response.masks[i] = RenderMask(o.masks[i])
                      /\ response.scores[i] = o.scores[i])

C19_Witness ==
    /\ pc = "waiting" /\ Kind(line) = "predict_click"
    /\ response # NoResponse /\ response.success
    /\ response.num_masks = 3 /\ response.scores = <<5, 9, 9>>
    /\ response.masks[1].white = {<<0, 0>>}
    /\ response.masks[3].white = {}

\* C20: a predict_click whose points and labels differ in length is
\* answered success:false, and logits, last_masks and last_scores of every
\* session are left as they were.
C20_LengthMismatchRejected ==
    [][(/\ pc = "handling" /\ Kind(line) = "predict_click" /\ Dispatched(line)
        /\ Len(line.body.points) # Len(line.body.labels)
        /\ exit_by' # "interrupt")
        => (/\ response' # NoResponse /\ ~response'.success
            /\ DOMAIN sessions' = DOMAIN sessions
            /\ \A k \in DOMAIN sessions :
                  Derived(sessions'[k]) = Derived(sessions[k]))]_vars

\* The store with the logits of every session dropped.
WithoutLogits(store) ==
    [k \in DOMAIN store |-> [store[k] EXCEPT !.logits = None]]

\* C21: handling a predict_text, whatever its outcome, leaves the logits of
\* every session as they were; the call it makes to the model carries the
\* inference state and the prompt and nothing else; and its response is
\* the one it gives on the same store with all logits dropped.
C21_TextLeavesLogits ==
    [][(/\ pc = "handling" /\ Kind(line) = "predict_text"
        /\ exit_by' # "interrupt")
        => (/\ DOMAIN sessions' = DOMAIN sessions
            /\ \A k \in DOMAIN sessions :
                  sessions'[k].logits = sessions[k].logits
            /\ call' # NoCall =>
                  (/\ call'.fn = "set_text_prompt"
                   /\ DOMAIN call' = {"fn", "state", "prompt"})
            /\ Dispatched(line) =>
                  \A model_raises \in BOOLEAN,
                     choice \in {"boxes", "noboxes", "zero"},
                     render_raises \in BOOLEAN :
                        predict_text(sessions, fs, line.body.session_id,
                                     line.body.prompt,
                                     Ext(model_raises, choice, render_raises,
                                         "ok")).response
                        = predict_text(WithoutLogits(sessions), fs,
                                       line.body.session_id, line.body.prompt,
                                       Ext(model_raises, choice, render_raises,
                                           "ok")).response)]_vars

C21_Witness ==
    /\ pc = "waiting" /\ Kind(line) = "predict_text" /\ Dispatched(line)
    /\ response # NoResponse /\ response.success
    /\ response.num_instances = 2
    /\ call # NoCall /\ call.fn = "set_text_prompt"
    /\ line.body.session_id \in DOMAIN sessions
    /\ sessions[line.body.session_id].logits # None

\* C22: a crop_from_mask on a session for which no predict_click and no
\* predict_text was handled since its last successful load_image answers
\* the no-mask error, writes nothing and leaves the store as it was.
C22_CropBeforeAnyPrediction ==
    [][(/\ pc = "handling" /\ Kind(line) = "crop_from_mask" /\ Dispatched(line)
        /\ line.body.session_id \in DOMAIN sessions
        /\ line.body.session_id \in DOMAIN hist
        /\ ~hist[line.body.session_id].ran
        /\ exit_by' # "interrupt")
        => (/\ response' = [success |-> FALSE, error |-> NoMasksText]
            /\ fs' = fs
            /\ sessions' = sessions)]_vars

\* s1 was cropped from, reloaded, and is cropped from again with no
\* prediction since the reload.
C22_Witness ==
    /\ pc = "waiting" /\ Kind(line) = "crop_from_mask" /\ Dispatched(line)
    /\ line.body.session_id = "s1" /\ "s1" \in DOMAIN hist
    /\ ~hist["s1"].ran
    /\ "crops/out.png" \in DOMAIN fs.files
    /\ response = [success |-> FALSE, error |-> NoMasksText]

\* C23: when the most recent successful prediction of a session since its
\* load is a predict_text that returned n >= 1 instances and no
\* predict_click was handled for it, a crop_from_mask with mask_index in
\* 0..n-1 is not answered with the no-mask error, and when it succeeds the
\* crop is written to output_path.
C23_TextMasksCroppable ==
    [][(/\ pc = "handling" /\ Kind(line) = "crop_from_mask" /\ Dispatched(line)
        /\ line.body.session_id \in DOMAIN sessions
        /\ line.body.session_id \in DOMAIN hist
        /\ ~hist[line.body.session_id].clicked
        /\ hist[line.body.session_id].by = "predict_text"
        /\ line.body.mask_index \in
              0..(Len(hist[line.body.session_id].masks) - 1)
        /\ exit_by' # "interrupt")
        => (/\ response' # [success |-> FALSE, error |-> NoMasksText]
            /\ response'.success =>
                  line.body.output_path \in DOMAIN fs'.files)]_vars

\* C24: last_masks and last_scores of a session are the masks and scores of
\* its most recent successful prediction since its load, whether that was
\* a predict_click or a predict_text, so a crop after a click followed by a
\* text prediction reads the text prediction's masks.
C24_LastMasksAreLatestPrediction ==
    \A id \in (DOMAIN sessions) \cap (DOMAIN hist) :
        hist[id].by # "none"
            => /\ "last_masks" \in DOMAIN sessions[id]
               /\ "last_scores" \in DOMAIN sessions[id]
               /\ sessions[id].last_masks # None
               /\ sessions[id].last_scores # None
               /\ RenderMasks(sessions[id].last_masks.data) = hist[id].masks
               /\ sessions[id].last_scores.data = hist[id].scores

\* f'Mask index {mask_index} out of range (have {len(masks)} masks)'
OutOfRangeText(mask_index, n) ==
    "Mask index " \o ToString(mask_index) \o " out of range (have "
        \o ToString(n) \o " masks)"

\* C25: a crop_from_mask on a session holding n masks whose mask_index is
\* not in 0..n-1, negative indices included, is answered with
\* "Mask index <i> out of range (have <n> masks)", writes no file and
\* leaves the session store unchanged.
C25_IndexOutsideRangeRejected ==
    [][(/\ pc = "handling" /\ Kind(line) = "crop_from_mask" /\ Dispatched(line)
        /\ line.body.session_id \in DOMAIN sessions
        /\ "last_masks" \in DOMAIN sessions[line.body.session_id]
        /\ sessions[line.body.session_id].last_masks # None
        /\ line.body.mask_index \notin
              0..(Len(sessions[line.body.session_id].last_masks.data) - 1)
        /\ exit_by' # "interrupt")
        => (/\ response' =
                 [success |-> FALSE,
                  error |-> OutOfRangeText(line.body.mask_index,
                      Len(sessions[line.body.session_id].last_masks.data))]
            /\ fs' = fs
            /\ sessions' = sessions)]_vars

\* C26: once a predict_click on a session was answered with success and
\* num_masks = n, and no load_image or clear_session of that session
\* followed, a crop_from_mask on it with mask_index in 0..n-1 is answered
\* neither with the no-mask error nor with the out-of-range error.
C26_ReportedIndicesAccepted ==
    [][(/\ pc = "handling" /\ Kind(line) = "crop_from_mask" /\ Dispatched(line)
        /\ line.body.session_id \in DOMAIN sessions
        /\ line.body.session_id \in DOMAIN hist
        /\ line.body.mask_index \in
              0..(hist[line.body.session_id].num_masks - 1)
        /\ exit_by' # "interrupt")
        => (\/ response'.success
            \/ /\ response'.error # NoMasksText
               /\ \A n \in 0..3 :
                     response'.error
                         # OutOfRangeText(line.body.mask_index, n))]_vars

\* C27: every crop_from_mask answered with success reports a bbox inside
\* the image, 0 <= x1, x2 < width and 0 <= y1, y2 < height, and a
\* crop_width and a crop_height above zero, a single-pixel mask cropped
\* with padding 0 included.
C27_CropBoxInsideAndPositive ==
    [][(/\ pc = "handling" /\ Kind(line) = "crop_from_mask" /\ Dispatched(line)
        /\ line.body.session_id \in DOMAIN sessions
        /\ exit_by' # "interrupt"
        /\ response'.success)
        => (/\ response'.bbox[1] \in
                  0..(sessions[line.body.session_id].width - 1)
            /\ response'.bbox[3] \in
                  0..(sessions[line.body.session_id].width - 1)
            /\ response'.bbox[2] \in
                  0..(sessions[line.body.session_id].height - 1)
            /\ response'.bbox[4] \in
                  0..(sessions[line.body.session_id].height - 1)
            /\ response'.crop_width > 0
            /\ response'.crop_height > 0)]_vars

\* v limited to lo..hi
Clamp(v, lo, hi) == IF v < lo THEN lo ELSE IF v > hi THEN hi ELSE v

\* C28: for every integer padding, the bbox of a crop_from_mask answered
\* with success is the tight box of the mask's foreground expanded by
\* padding on every side and clamped to the image: x1 and y1 are never
\* negative, x2 <= width - 1, y2 <= height - 1, x1 <= x2 and y1 <= y2.
C28_BoxIsPaddedTightBoxClamped ==
    [][(/\ pc = "handling" /\ Kind(line) = "crop_from_mask" /\ Dispatched(line)
        /\ line.body.session_id \in DOMAIN sessions
        /\ "padding" \in DOMAIN line.body
        /\ line.body.mask_index = 0
        /\ exit_by' # "interrupt"
        /\ response'.success)
        => (\E session \in {sessions[line.body.session_id]} :
            \E fg \in {session.last_masks.data[1].fg} :
            \E padding \in {line.body.padding} :
              /\ response'.bbox[1] = Clamp(SetMin({q[2] : q \in fg}) - padding,
                                           0, session.width - 1)
              /\ response'.bbox[2] = Clamp(SetMin({q[1] : q \in fg}) - padding,
                                           0, session.height - 1)
              /\ response'.bbox[3] = Clamp(SetMax({q[2] : q \in fg}) + padding,
                                           0, session.width - 1)
              /\ response'.bbox[4] = Clamp(SetMax({q[1] : q \in fg}) + padding,
                                           0, session.height - 1)
              /\ response'.bbox[1] >= 0 /\ response'.bbox[2] >= 0
              /\ response'.bbox[3] <= session.width - 1
              /\ response'.bbox[4] <= session.height - 1
              /\ response'.bbox[1] <= response'.bbox[3]
              /\ response'.bbox[2] <= response'.bbox[4])]_vars

\* C29: the crop_width and crop_height of a crop_from_mask answered with
\* success are the width and height in pixels of the image written to
\* output_path, the columns x1..x2 and rows y1..y2 of the bbox inclusive.
C29_CropSizeIsSavedSize ==
    [][(/\ pc = "handling" /\ Kind(line) = "crop_from_mask" /\ Dispatched(line)
        /\ exit_by' # "interrupt"
        /\ response'.success)
        => (/\ line.body.output_path \in DOMAIN fs'.files
            /\ fs'.files[line.body.output_path].size
                  = <<response'.crop_width, response'.crop_height>>
            /\ response'.crop_width
                  = Cardinality(response'.bbox[1]..response'.bbox[3])
            /\ response'.crop_height
                  = Cardinality(response'.bbox[2]..response'.bbox[4]))]_vars

\* C30: a crop_from_mask that selects a mask with no pixel above 0.5 is
\* answered with the error "Mask is empty" whatever background_mode and
\* padding it carries; it writes no file, makes no directory and leaves the
\* session store unchanged.
C30_EmptyMaskRejected ==
    [][(/\ pc = "handling" /\ Kind(line) = "crop_from_mask" /\ Dispatched(line)
        /\ line.body.session_id \in DOMAIN sessions
        /\ "last_masks" \in DOMAIN sessions[line.body.session_id]
        /\ sessions[line.body.session_id].last_masks # None
        /\ line.body.mask_index \in
              0..(Len(sessions[line.body.session_id].last_masks.data) - 1)
        /\ sessions[line.body.session_id].last_masks
              .data[line.body.mask_index + 1].fg = {}
        /\ exit_by' # "interrupt")
        => (/\ response' = [success |-> FALSE, error |-> "Mask is empty"]
            /\ fs' = fs
            /\ sessions' = sessions)]_vars

C30_Witness ==
    /\ pc = "waiting" /\ Kind(line) = "crop_from_mask"
    /\ "background_mode" \in DOMAIN line.body
    /\ line.body.background_mode = "sepia"
    /\ line.body.padding < 0
    /\ line.body.session_id \in DOMAIN sessions
    /\ sessions[line.body.session_id].last_masks.data[1].fg = {}
    /\ response = [success |-> FALSE, error |-> "Mask is empty"]
    /\ fs.files = <<>> /\ fs.dirs = {}

\* C31: a crop_from_mask whose background_mode is none of transparent,
\* white, black and original is never answered with success and creates or
\* changes neither a file nor a directory; when its session, its masks and
\* its mask_index are valid and the selected mask is not empty, the error
\* is "Unknown background_mode: " followed by the value.
C31_UnknownModeWritesNothing ==
    [][(/\ pc = "handling" /\ Kind(line) = "crop_from_mask" /\ Dispatched(line)
        /\ "background_mode" \in DOMAIN line.body
        /\ line.body.background_mode
              \notin {"transparent", "white", "black", "original"}
        /\ exit_by' # "interrupt")
        => (/\ ~response'.success
            /\ fs' = fs
            /\ (/\ line.body.session_id \in DOMAIN sessions
                /\ "last_masks" \in DOMAIN sessions[line.body.session_id]
                /\ sessions[line.body.session_id].last_masks # None
                /\ line.body.mask_index \in
                     0..(Len(sessions[line.body.session_id].last_masks.data) - 1)
                /\ sessions[line.body.session_id].last_masks
                     .data[line.body.mask_index + 1].fg # {})
               => response'.error
                     = "Unknown background_mode: "
                          \o line.body.background_mode)]_vars

C31_Witness ==
    /\ pc = "waiting" /\ Kind(line) = "crop_from_mask"
    /\ "background_mode" \in DOMAIN line.body
    /\ line.body.output_path = "crops/out.png"
    /\ response = [success |-> FALSE,
                   error |-> "Unknown background_mode: sepia"]
    /\ "crops" \notin fs.dirs
    /\ "crops/out.png" \notin DOMAIN fs.files

\* C32: in the image a successful crop_from_mask writes under
\* background_mode white or black, every pixel whose original coordinate
\* is foreground in the selected mask is the source image's pixel at that
\* coordinate and every other pixel is the fill colour, (255, 255, 255) for
\* white and (0, 0, 0) for black, for every mask, image size and padding.
C32_FillOutsideSourceInside ==
    [][(/\ pc = "handling" /\ Kind(line) = "crop_from_mask" /\ Dispatched(line)
        /\ "background_mode" \in DOMAIN line.body
        /\ line.body.background_mode \in {"white", "black"}
        /\ line.body.mask_index >= 0
        /\ exit_by' # "interrupt"
        /\ response'.success)
        => (\E session \in {sessions[line.body.session_id]} :
            \E saved \in {fs'.files[line.body.output_path]} :
              /\ saved.mode = "RGB"
              /\ \A q \in DOMAIN saved.px :
                    saved.px[q] =
                        IF q \in session.last_masks
                                   .data[line.body.mask_index + 1].fg
                        THEN [of |-> session.image_path, at |-> q]
                        ELSE IF line.body.background_mode = "white"
                        THEN [fill |-> <<255, 255, 255>>]
                        ELSE [fill |-> <<0, 0, 0>>])]_vars

C32_Witness ==
    /\ pc = "waiting" /\ Kind(line) = "crop_from_mask"
    /\ "background_mode" \in DOMAIN line.body
    /\ line.body.background_mode = "white"
    /\ response.success
    /\ line.body.output_path \in DOMAIN fs.files
    /\ \E q1, q2 \in DOMAIN fs.files[line.body.output_path].px :
          /\ fs.files[line.body.output_path].px[q1]
                = [fill |-> <<255, 255, 255>>]
          /\ fs.files[line.body.output_path].px[q2]
                = [of |-> "img.png", at |-> q2]

\* C33: every pixel of the image a successful crop_from_mask writes under
\* background_mode original is the source image's pixel at its position
\* counted from the corner (x1, y1) of the reported bbox, whether or not
\* that pixel is foreground in the mask; when the reported bbox has
\* x1 <= x2 and y1 <= y2 the image holds exactly the pixels of the box.
C33_OriginalKeepsSourcePixels ==
    [][(/\ pc = "handling" /\ Kind(line) = "crop_from_mask" /\ Dispatched(line)
        /\ "background_mode" \in DOMAIN line.body
        /\ line.body.background_mode = "original"
        /\ exit_by' # "interrupt"
        /\ response'.success)
        => (\E saved \in {fs'.files[line.body.output_path]} :
              /\ saved.mode = "RGB"
              /\ \A q \in DOMAIN saved.px :
                    /\ saved.px[q] =
                          [of |-> sessions[line.body.session_id].image_path,
                           at |-> q]
                    /\ q[1] >= response'.bbox[2]
                    /\ q[2] >= response'.bbox[1]
              /\ (/\ response'.bbox[1] <= response'.bbox[3]
                  /\ response'.bbox[2] <= response'.bbox[4])
                 => DOMAIN saved.px
                       = (response'.bbox[2]..response'.bbox[4])
                            \X (response'.bbox[1]..response'.bbox[3]))]_vars

C33_Witness ==
    /\ pc = "waiting" /\ Kind(line) = "crop_from_mask"
    /\ "background_mode" \in DOMAIN line.body
    /\ line.body.background_mode = "original"
    /\ response.success
    /\ line.body.output_path \in DOMAIN fs.files
    /\ \E q \in DOMAIN fs.files[line.body.output_path].px :
          /\ q \notin sessions["s1"].last_masks.data[1].fg
          /\ fs.files[line.body.output_path].px[q]
                = [of |-> "img.png", at |-> q]

\* C34: a crop_from_mask, answered with success or with failure, leaves the
\* session store as it was: the same ids, and for every session the same
\* image, width, height, inference state, logits, last_masks and
\* last_scores, so a further crop reads the same masks.
C34_CropLeavesStore ==
    [][(/\ pc = "handling" /\ Kind(line) = "crop_from_mask"
        /\ exit_by' # "interrupt")
        => (/\ DOMAIN sessions' = DOMAIN sessions
            /\ \A id \in DOMAIN sessions :
                  /\ DOMAIN sessions'[id] = DOMAIN sessions[id]
                  /\ \A k \in DOMAIN sessions[id] :
                        sessions'[id][k] = sessions[id][k])]_vars

C34_Witness ==
    /\ pc = "waiting" /\ Kind(line) = "crop_from_mask"
    /\ response.success
    /\ line.body.mask_index = 1
    /\ line.body.output_path \in DOMAIN fs.files
    /\ fs.files[line.body.output_path].mode = "RGB"
    /\ Len(sessions[line.body.session_id].last_masks.data) = 3
    /\ sessions[line.body.session_id].last_scores.data = <<5, 9, 9>>
    /\ sessions[line.body.session_id].logits # None

\* The store holding the one session session_id, when it exists.
Only(store, session_id) ==
    [k \in (DOMAIN store) \cap {session_id} |-> store[k]]

\* The outcomes of the external calls a command of each kind can meet.
ExtsOf(kind) ==
    CASE kind = "predict_click" ->
            {Ext(m, c, r, "ok") :
                m \in BOOLEAN, c \in {"masks", "zero"}, r \in BOOLEAN}
      [] kind = "predict_text" ->
            {Ext(m, c, r, "ok") :
                m \in BOOLEAN, c \in {"boxes", "noboxes", "zero"},
                r \in BOOLEAN}
      [] kind = "crop_from_mask" ->
            {Ext(FALSE, "masks", r, f) :
                r \in BOOLEAN, f \in {"ok", "makedirs", "save"}}
      [] OTHER -> {NoExt}

\* What a handler did apart from the store it returns.
Effect(r) == [r EXCEPT !.sessions = <<>>]

\* C35: handling a command that names session id A, whatever its outcome,
\* neither adds, removes nor changes any session B # A; and what a
\* predict_click, predict_text or crop_from_mask on B answers, passes to
\* the model and writes is what it does on a store that holds B alone.
C35_SessionsIsolated ==
    [][(/\ pc = "handling" /\ line.raw = "json"
        /\ "session_id" \in DOMAIN line.body
        /\ exit_by' # "interrupt")
        => (/\ \A B \in ((DOMAIN sessions) \cup (DOMAIN sessions'))
                          \ {line.body.session_id} :
                  /\ B \in DOMAIN sessions /\ B \in DOMAIN sessions'
                  /\ sessions'[B] = sessions[B]
            /\ (Dispatched(line) /\ Kind(line) \in
                    {"predict_click", "predict_text", "crop_from_mask"})
               => \A ext \in ExtsOf(Kind(line)) :
                       Effect(handle_command(sessions, fs, line.body, ext))
                       = Effect(handle_command(
                                  Only(sessions, line.body.session_id), fs,
                                  line.body, ext)))]_vars

C35_Witness ==
    /\ pc = "waiting" /\ Kind(line) = "predict_click" /\ Dispatched(line)
    /\ line.body.session_id = "s2"
    /\ line.body.use_previous_logits
    /\ response.success
    /\ "s1" \in DOMAIN sessions
    /\ sessions["s1"].logits # None
    /\ call.fn = "predict_inst"
    /\ call.mask_input = None
    /\ sessions["s2"].logits # None

\* C36: a line is read only while no request is being handled and every
\* request read so far has its response on stdout, and reading it changes
\* neither the store, the files nor stdout; the store and the files change
\* only in the step that handles the one request in progress, which also
\* writes that request's response.
C36_OneCommandAtATime ==
    [][/\ nlines' # nlines
          => /\ pc = "waiting"
             /\ nlines' = nlines + 1
             /\ Len(Responses) = nreq
             /\ nreq' \in {nreq, nreq + 1}
             /\ sessions' = sessions /\ fs' = fs /\ out' = out
       /\ (sessions' # sessions \/ fs' # fs)
          => /\ pc = "handling" /\ pc' # "handling"
             /\ nlines' = nlines /\ nreq' = nreq
             /\ Len(Responses) = nreq - 1
             /\ exit_by' # "interrupt" => Len(Responses') = nreq]_vars

C36_Witness ==
    /\ pc = "handling" /\ nreq = 3 /\ nlines > nreq
    /\ Len(Responses) = 2
    /\ Kind(line) = "predict_click"
    /\ line.body.session_id \in DOMAIN sessions

\* C37: in every reachable state a session holds logits only if a
\* predict_click on it was answered with success since its most recent
\* successful load_image.
C37_LogitsOnlyAfterSuccessfulClick ==
    \A id \in DOMAIN sessions :
        sessions[id].logits # None
            => /\ id \in DOMAIN hist
               /\ hist[id].num_masks >= 0

\* C38: a predict_click answered with success false, because the model
\* call raised or because rendering a returned mask raised, leaves the
\* store's ids and the logits, last_masks and last_scores of its session as
\* they were before the request.
C38_FailedClickLeavesSession ==
    [][(/\ pc = "handling" /\ Kind(line) = "predict_click" /\ Dispatched(line)
        /\ line.body.session_id \in DOMAIN sessions
        /\ exit_by' # "interrupt"
        /\ ~response'.success)
        => (/\ DOMAIN sessions' = DOMAIN sessions
            /\ \A key \in {"logits", "last_masks", "last_scores"} :
                  /\ key \in DOMAIN sessions'[line.body.session_id]
                        <=> key \in DOMAIN sessions[line.body.session_id]
                  /\ key \in DOMAIN sessions[line.body.session_id]
                        => sessions'[line.body.session_id][key]
                              = sessions[line.body.session_id][key])]_vars

\* C39: a request that is valid JSON but not an object, or an object whose
\* command is known and which lacks a field the dispatcher subscripts, gets
\* exactly one response, with success false and a non-empty error string
\* (the quoted name of the first missing field in the second case); the
\* store and the files are unchanged and the loop waits for the next line.
C39_MalformedRequestRejected ==
    [][(/\ pc = "handling"
        /\ \/ Kind(line) = "nonobject"
           \/ line.raw = "json" /\ ~Dispatched(line)
        /\ exit_by' # "interrupt")
        => (/\ Len(Responses') = Len(Responses) + 1
            /\ ~response'.success
            /\ DOMAIN response' = {"success", "error"}
            /\ response'.error # ""
            /\ line.raw = "json" =>
                  response'.error
                     = "'" \o FirstMissing(line.body, Required(Kind(line)))
                           \o "'"
            /\ sessions' = sessions
            /\ fs' = fs
            /\ pc' = "waiting")]_vars

C39_Witness ==
    /\ pc = "waiting" /\ Kind(line) = "predict_click" /\ ~Dispatched(line)
    /\ response = [success |-> FALSE, error |-> "'labels'"]
    /\ "s1" \in DOMAIN sessions
    /\ "last_masks" \in DOMAIN sessions["s1"]
    /\ Len(Responses) = nreq

\* A box augment_image can convert under bbox_format: a list of four
\* numbers, in one of the two known formats.
Convertible(bbox, bbox_format) ==
    /\ bbox # None
    /\ bbox.numeric
    /\ Len(bbox.items) = 4
    /\ bbox_format \in {"xywh", "xyxy"}

\* The corners x1, y1, x2, y2 of a convertible box, clamped to the image.
ClampedCorners(bbox, bbox_format, size) ==
    <<Clamp(bbox.items[1], 0, size[1]),
      Clamp(bbox.items[2], 0, size[2]),
      Clamp(IF bbox_format = "xywh" THEN bbox.items[1] + bbox.items[3]
            ELSE bbox.items[3], 0, size[1]),
      Clamp(IF bbox_format = "xywh" THEN bbox.items[2] + bbox.items[4]
            ELSE bbox.items[4], 0, size[2])>>

\* The positions, in order, of the boxes that can be converted and keep a
\* positive width and height once clamped.
KeptIndices(args) ==
    SelectSeq([i \in 1..Len(args.bboxes) |-> i],
              LAMBDA i :
                /\ Convertible(args.bboxes[i], args.bbox_format)
                /\ ClampedCorners(args.bboxes[i], args.bbox_format,
                                  args.size)[3]
                   > ClampedCorners(args.bboxes[i], args.bbox_format,
                                    args.size)[1]
                /\ ClampedCorners(args.bboxes[i], args.bbox_format,
                                  args.size)[4]
                   > ClampedCorners(args.bboxes[i], args.bbox_format,
                                    args.size)[2])

\* C40: when augment_image has read its image and was given one label per
\* box, the boxes it hands to the pipeline are the clamped boxes of exactly
\* those that can be converted and keep a positive width and height, in
\* their original order, and the labels it hands over are the labels at the
\* same positions; the pipeline is called whenever one such box exists,
\* and the call fails with "No valid bounding boxes" exactly when none does.
C40_InvalidBoxesDropped ==
    (/\ aug.pc = "returned"
     /\ Len(aug.args.labels) = Len(aug.args.bboxes)
     /\ aug.result # [success |-> FALSE,
                      error |-> "Failed to load image: "
                                   \o aug.args.image_path])
    => /\ (KeptIndices(aug.args) = <<>>)
            <=> aug.result = [success |-> FALSE,
                              error |-> "No valid bounding boxes"]
       /\ KeptIndices(aug.args) # <<>>
            => /\ aug.pipeline # NoCall
               /\ aug.pipeline.bboxes =
                     [j \in 1..Len(KeptIndices(aug.args)) |->
                        ClampedCorners(
                            aug.args.bboxes[KeptIndices(aug.args)[j]],
                            aug.args.bbox_format, aug.args.size)]
               /\ aug.pipeline.class_labels =
                     [j \in 1..Len(KeptIndices(aug.args)) |->
                        aug.args.labels[KeptIndices(aug.args)[j]]]

C40_Witness ==
    /\ aug.pc = "returned"
    /\ Len(aug.args.bboxes) = 3 /\ aug.args.labels = <<"a", "b", "c">>
    /\ aug.args.bboxes[2] = None
    /\ aug.result.success
    /\ aug.pipeline # NoCall
    /\ Len(aug.pipeline.bboxes) = 2
    /\ aug.pipeline.class_labels = <<"a", "c">>
    /\ aug.result.original_bbox_count = 3
    /\ aug.result.result_bbox_count = 2

====
